---- MODULE Spec2Model ----
(***************************************************************************)
(* TypeScriptServiceHost (packages/language-service/src/typescript_host.ts) *)
(* as a state machine: the host object's cache fields, the TypeScript       *)
(* language service it reads (program identity, source files, version      *)
(* stamps, file contents), and one action per public operation.             *)
(***************************************************************************)
EXTENDS Integers, Sequences, FiniteSets, TLC

\* ------------------------------------------------------------------ bounds
NumFiles == 2      \* file names are 1..NumFiles
MaxProgram == 2    \* ts.Program objects are numbered 1..MaxProgram
MaxErrors == 2     \* cap on the errors held by the error channel
MaxWrappers == 6   \* cap on the TypeWrapper objects one symbol query constructs
MaxDeclarations == 3   \* longest list of declarations given to createSymbolTable
MaxCalls == 2      \* cap on the calls of one kind a wrapper makes on the checker
MaxSymbols == 4    \* cap on the DeclaredSymbol objects constructed for tables

Files == 1..NumFiles

\* What a file's text declares:
\*   "none"    no decorated class
\*   "ok"      a component with an inline template, resolves cleanly
\*   "url"     a component with a templateUrl, resolves cleanly
\*   "reports" a component whose metadata the static symbol resolver reports
\*             an error for (through the error callback) when it loads it
\*   "throws"  a decorated class, declared by no module, whose metadata
\*             resolution throws on every attempt
Kinds == {"none", "ok", "url", "reports", "throws"}

\* host.getScriptFileNames()[0]
FirstScript == 1

Null == [kind |-> "null"]

VARIABLES
  program,        \* identity of the object tsService.getProgram() returns
  sourceFiles,    \* program.getSourceFiles(), as file names
  scriptVersion,  \* host.getScriptVersion(fileName)
  content,        \* what the current text of each file declares
  host,           \* the fields of the TypeScriptServiceHost object
  call,           \* the last public call: its name, argument, result and what it did
  ast,            \* the ts.SourceFile syntax tree of each file's current text
  query           \* a TypeScriptSymbolQuery object (Null while none is examined)

vars == <<program, sourceFiles, scriptVersion, content, host, call, ast, query>>

\* ------------------------------------------------------------ syntax trees
\* A syntax node as written: its ts.SyntaxKind, its text (the name of a class
\* or property, the text of a literal or identifier), for a class what
\* metadata resolution makes of it ("directive": resolves to directive
\* metadata; "throws": resolution throws an error that has a message;
\* "silent": resolution throws a value without message; "other": not a
\* directive), for an expression "untyped" when the checker has no type for
\* it, and its children in ts.forEachChild order.
Node(kind, text, children) ==
  [kind |-> kind, text |-> text, resolves |-> "", children |-> children]

Identifier(text) == Node("Identifier", text, <<>>)

\* An identifier checker.getTypeAtLocation has no type for.
UntypedIdentifier(text) == [Identifier(text) EXCEPT !.resolves = "untyped"]

StringLiteral(text) == Node("StringLiteral", text, <<>>)

NoSubstitutionTemplateLiteral(text) == Node("NoSubstitutionTemplateLiteral", text, <<>>)

NumericLiteral(text) == Node("NumericLiteral", text, <<>>)

\* name: initializer
PropertyAssignment(name, initializer) ==
  Node("PropertyAssignment", name, <<Identifier(name), initializer>>)

\* 'name': initializer (the property name is itself a string literal)
QuotedPropertyAssignment(name, initializer) ==
  Node("PropertyAssignment", name, <<StringLiteral(name), initializer>>)

ObjectLiteralExpression(properties) == Node("ObjectLiteralExpression", "", properties)

ArrayLiteralExpression(elements) == Node("ArrayLiteralExpression", "", elements)

CallExpression(expression, arguments) ==
  Node("CallExpression", "", <<expression>> \o arguments)

Decorator(expression) == Node("Decorator", "", <<expression>>)

MethodDeclaration(name, decorators) ==
  Node("MethodDeclaration", name, decorators \o <<Identifier(name)>>)

\* A class declaration; name "" is a class without a name
\* (export default class {...}).
ClassDeclaration(name, resolves, decorators, members) ==
  [kind |-> "ClassDeclaration", text |-> name, resolves |-> resolves,
   children |-> decorators
                \o (IF name = "" THEN <<>> ELSE <<Identifier(name)>>)
                \o members]

\* const x = initializer;
VariableStatement(initializer) == Node("VariableStatement", "x", <<Identifier("x"), initializer>>)

ExpressionStatement(expression) == Node("ExpressionStatement", "", <<expression>>)

SourceFile(statements) == Node("SourceFile", "", statements)

LiteralKinds == {"StringLiteral", "NoSubstitutionTemplateLiteral"}

\* The extent of a node, in positions: a string or template literal is its
\* two quotes around its text, any other leaf is one position, an inner node
\* has one position of its own before and after its children.
RECURSIVE Width(_)
RECURSIVE WidthOfAll(_, _)
WidthOfAll(nodes, n) ==
  IF n = 0 THEN 0 ELSE WidthOfAll(nodes, n - 1) + Width(nodes[n])

Width(t) ==
  IF t.children # <<>> THEN 2 + WidthOfAll(t.children, Len(t.children))
  ELSE IF t.kind \in LiteralKinds THEN 2 + Len(t.text)
  ELSE 1

\* Number of nodes of a subtree.
RECURSIVE Size(_)
RECURSIVE SizeOfAll(_, _)
SizeOfAll(nodes, n) ==
  IF n = 0 THEN 0 ELSE SizeOfAll(nodes, n - 1) + Size(nodes[n])

Size(t) == 1 + SizeOfAll(t.children, Len(t.children))

\* The parsed tree: the nodes in tree-walk (pre-) order, each with the index
\* of its parent (0 for the source file) and its extent
\* [getStart(), getEnd()).
RECURSIVE Bind(_, _, _, _)
RECURSIVE BindAll(_, _, _, _, _)
BindAll(nodes, k, parent, index, start) ==
  IF k > Len(nodes) THEN <<>>
  ELSE Bind(nodes[k], parent, index, start)
       \o BindAll(nodes, k + 1, parent, index + Size(nodes[k]), start + Width(nodes[k]))

Bind(t, parent, index, start) ==
  <<[kind |-> t.kind, text |-> t.text, resolves |-> t.resolves,
     parent |-> parent, start |-> start, end |-> start + Width(t)]>>
  \o BindAll(t.children, 1, index, index + 1, start + 1)

createSourceFile(t) == Bind(t, 0, 1, 0)

\* spanOf(node): typescript_host.ts:1231-1233
spanOf(node) == [start |-> node.start, end |-> node.end]

\* The kinds that are not above ts.SyntaxKind.LastToken.
TokenKinds ==
  {"Identifier", "StringLiteral", "NoSubstitutionTemplateLiteral", "NumericLiteral"}

\* The first node, in order, that findChild finds among the children of
\* node i (ts.forEachChild(node, findChild)); 0 is undefined.
RECURSIVE findChild(_, _, _)
forEachChildFindChild(nodes, i, position) ==
  LET found == {findChild(nodes, j, position) :
                  j \in {c \in 1..Len(nodes) : nodes[c].parent = i}} \ {0}
  IN IF found = {} THEN 0 ELSE CHOOSE j \in found : \A k \in found : j <= k

\* findChild(node) of spanAt: typescript_host.ts:1243-1248
findChild(nodes, i, position) ==
  IF /\ nodes[i].kind \notin TokenKinds
     /\ nodes[i].start <= position
     /\ nodes[i].end > position
  THEN LET betterNode == forEachChildFindChild(nodes, i, position)
       IN IF betterNode # 0 THEN betterNode ELSE i
  ELSE 0

\* spanAt(sourceFile, line, column): typescript_host.ts:1240-1256.  -1 is
\* an undefined line or column, Null an undefined span; the text of a file
\* is one line, so the position of (0, column) is column.
spanAt(nodes, line, column) ==
  IF line # -1 /\ column # -1
  THEN LET node == forEachChildFindChild(nodes, 1, line + column)
       IN IF node # 0 THEN spanOf(nodes[node]) ELSE Null
  ELSE Null

\* @Component({property: literal}) class name {}
Component(name, resolves, property, literal) ==
  ClassDeclaration(name, resolves,
    <<Decorator(CallExpression(Identifier("Component"),
        <<ObjectLiteralExpression(<<PropertyAssignment(property, literal)>>)>>))>>,
    <<>>)

\* The text of a file of each kind.
Text(k) ==
  CASE k = "none" -> SourceFile(<<VariableStatement(StringLiteral("t"))>>)
    [] k = "ok" -> SourceFile(<<Component("C", "directive", "template", StringLiteral("t"))>>)
    [] k = "url" -> SourceFile(<<Component("C", "directive", "templateUrl", StringLiteral("t"))>>)
    [] k = "reports" -> SourceFile(<<Component("C", "directive", "template", StringLiteral("t"))>>)
    [] k = "throws" -> SourceFile(<<Component("C", "throws", "template", StringLiteral("t"))>>)

Parse(k) == createSourceFile(Text(k))

\* ------------------------------------------------------- the host object
\* Fields as declared at typescript_host.ts:77-93.  The last three are
\* bookkeeping: the numbers of StaticReflector and NgAnalyzedModules objects
\* constructed so far (object identity), and the program the most recent
\* validate() call saw (0 before the first call).
NewHost ==
  [ _resolver |-> Null,
    _staticSymbolResolver |-> Null,
    _reflector |-> Null,
    _reflectorHost |-> FALSE,
    _checker |-> 0,
    _typeCache |-> <<>>,
    context |-> 0,
    lastProgram |-> 0,
    modulesOutOfDate |-> TRUE,
    analyzedModules |-> Null,
    fileToComponent |-> Null,
    templateReferences |-> Null,
    collectedErrors |-> Null,
    fileVersions |-> [f \in Files |-> 0],
    reflectors |-> 0,
    analyses |-> 0,
    validatedProgram |-> 0 ]

\* What is recorded about one public call.
NoValidate == [detected |-> FALSE]

HostChanges == {"edit", "add", "remove"}

\* after: what preceded this step.  For a host change, the name of the public
\* call before it ("throw" if that call threw); for a public call, "same" if
\* the step before it was the same call with the same argument and returned,
\* "other" if not.
NewCall(op, file) ==
  [ op |-> op, file |-> file, thrown |-> FALSE, result |-> Null,
    validated |-> FALSE, reads |-> {}, validate |-> NoValidate,
    changedOnSame |-> FALSE,
    after |-> IF op \in HostChanges
              THEN (IF call.thrown THEN "throw" ELSE call.op)
              ELSE IF call.op = op /\ call.file = file /\ ~call.thrown
                   THEN "same" ELSE "other" ]

FirstCall ==
  [ op |-> "new", file |-> 0, thrown |-> FALSE, result |-> Null,
    validated |-> FALSE, reads |-> {}, validate |-> NoValidate,
    changedOnSame |-> FALSE,
    after |-> "other" ]

\* A call in progress: the host object and the record of the call.
Start(op, file) == [h |-> host, o |-> NewCall(op, file)]

\* Sequencing: F applied to the value of e (e is evaluated once).
Then(e, F(_)) == CHOOSE r \in {F(v) : v \in {e}} : TRUE

\* A cache field was read: which one, the program its value was built from,
\* whether the value was there already (rather than built by this read), and
\* whether validate() had already run in this call.
Read(s, cache, tag, cached) ==
  [s EXCEPT !.o.reads = @ \cup
      {[cache |-> cache, program |-> tag, cached |-> cached,
        validated |-> s.o.validated]}]

Throw(s) == [s EXCEPT !.o.thrown = TRUE]

\* ------------------------------------------------ error-collection channel
\* An error object: the file whose metadata raised it and that file's version
\* stamp at the time.  old marks the errors that were in the channel when a
\* validate() call found the program changed.  type names the class whose
\* resolution threw the error; it is "" for an error the metadata loader
\* reported for the file as a whole.  line and column are the position the
\* error carries, -1 for an error that carries none.
Error(f) == [file |-> f, version |-> scriptVersion[f], old |-> FALSE,
             type |-> "", line |-> -1, column |-> -1]

\* The error the metadata loader reports for file f: it carries the position
\* of the first literal of the file (the value of the decorator's property).
ReportedError(f) ==
  LET nodes == ast[f]
      literals == {i \in 1..Len(nodes) : nodes[i].kind \in LiteralKinds}
  IN IF literals = {} THEN Error(f)
     ELSE [Error(f) EXCEPT
             !.line = 0,
             !.column = nodes[CHOOSE i \in literals : \A k \in literals : i <= k].start]

\* The exception thrown while resolving the metadata of class name of file f
\* (caught at typescript_host.ts:540); it carries no position.
ResolutionError(f, name) == [Error(f) EXCEPT !.type = name]

markOld(s) ==
  IF s.h.collectedErrors = Null THEN s
  ELSE [s EXCEPT !.h.collectedErrors.map =
          [f \in Files |-> [i \in 1..Len(@[f]) |-> [@[f][i] EXCEPT !.old = TRUE]]]]

NoErrors == [f \in Files |-> <<>>]

\* collectError(error, filePath): typescript_host.ts:401-412
collectError(s, error, filePath) ==
  LET errorMap == IF s.h.collectedErrors = Null THEN NoErrors
                  ELSE s.h.collectedErrors.map
  IN [s EXCEPT !.h.collectedErrors =
        [kind |-> "errors",
         map |-> [errorMap EXCEPT ![filePath] = Append(@, error)]]]

\* The errors the channel holds for a file (collectedErrors.get(fileName)).
ErrorsOf(h, f) ==
  IF h.collectedErrors = Null THEN <<>> ELSE h.collectedErrors.map[f]

RECURSIVE SumLen(_, _)
SumLen(m, n) == IF n = 0 THEN 0 ELSE Len(m[n]) + SumLen(m, n - 1)

ErrorCount(h) ==
  IF h.collectedErrors = Null THEN 0 ELSE SumLen(h.collectedErrors.map, NumFiles)

RECURSIVE AllErrors(_, _)
AllErrors(h, n) == IF n = 0 THEN <<>> ELSE AllErrors(h, n - 1) \o ErrorsOf(h, n)

\* The DeclarationError made of a collected error (typescript_host.ts:508):
\* its span is spanAt(sourceFile, e.line, e.column), the default span if
\* that is undefined.
DeclarationError(e, defaultSpan, nodes) ==
  [file |-> e.file, version |-> e.version, old |-> e.old, type |-> e.type,
   span |-> Then(spanAt(nodes, e.line, e.column), LAMBDA span :
              IF span # Null THEN span ELSE defaultSpan)]

DeclarationErrors(errors, defaultSpan, nodes) ==
  [k \in 1..Len(errors) |-> DeclarationError(errors[k], defaultSpan, nodes)]

\* A variant of getCollectedErrors that ignores the file name.
getCollectedErrorsOfAnyFile(s, defaultSpan, f) ==
  DeclarationErrors(AllErrors(s.h, NumFiles), defaultSpan, ast[f])

\* getCollectedErrors(defaultSpan, sourceFile): typescript_host.ts:505-511
getCollectedErrors(s, defaultSpan, f) ==
  DeclarationErrors(ErrorsOf(s.h, f), defaultSpan, ast[f])

\* -------------------------------------------------- static symbol resolver
\* The resolver keeps, per file, the metadata it loaded (the file's version
\* and what it declared then) until invalidateFile(fileName) drops it.
NoMeta == [version |-> 0, kind |-> "none"]

NewStaticSymbolResolver == [kind |-> "ssr", metadataCache |-> [f \in Files |-> NoMeta]]

\* StaticSymbolResolver.invalidateFile(fileName)
invalidateFile(ssr, f) == [ssr EXCEPT !.metadataCache[f] = NoMeta]

RECURSIVE invalidateFiles(_, _, _)
invalidateFiles(ssr, fs, n) ==
  IF n = 0 THEN ssr
  ELSE Then(invalidateFiles(ssr, fs, n - 1), LAMBDA r :
         IF n \in fs THEN invalidateFile(r, n) ELSE r)

\* The resolver reads a file's metadata: a cached entry is reused; otherwise
\* the current text is read, cached, and an error is reported through the
\* callback (e, filePath) => this.collectError(e, filePath) when the text is
\* of kind "reports".
loadMetadata(s, f) ==
  IF s.h._staticSymbolResolver.metadataCache[f] # NoMeta THEN s
  ELSE Then([s EXCEPT !.h._staticSymbolResolver.metadataCache[f] =
                        [version |-> scriptVersion[f], kind |-> content[f]]],
            LAMBDA s1 :
              IF content[f] = "reports" THEN collectError(s1, ReportedError(f), f) ELSE s1)

RECURSIVE loadAll(_, _)
loadAll(s, n) ==
  IF n = 0 THEN s
  ELSE Then(loadAll(s, n - 1), LAMBDA r :
         IF n \in sourceFiles THEN loadMetadata(r, n) ELSE r)

\* ------------------------------------------------------ validate and caches
\* A variant of clearCaches() that leaves collectedErrors alone.
clearCachesKeepErrors(s) ==
  [s EXCEPT !.h._checker = 0,
            !.h._typeCache = <<>>,
            !.h._resolver = Null,
            !.h.modulesOutOfDate = TRUE]

\* clearCaches(): typescript_host.ts:275-281
clearCaches(s) ==
  [s EXCEPT !.h._checker = 0,
            !.h._typeCache = <<>>,
            !.h._resolver = Null,
            !.h.collectedErrors = Null,
            !.h.modulesOutOfDate = TRUE]

\* The guard of validate(): typescript_host.ts:249
programChanged(s) ==
  s.h._staticSymbolResolver # Null /\ s.h.lastProgram # program

\* The fields of the host object proper (bookkeeping left out).
Fields(h) ==
  [n \in DOMAIN h \ {"reflectors", "analyses", "validatedProgram"} |-> h[n]]

\* The preceding validate() call, whenever it was, saw the program the host
\* returns now.
sameProgramAsLastValidate(s) == s.h.validatedProgram = program

\* The source files whose version stamp is not the recorded one
\* (typescript_host.ts:255-264).
changedFiles(s) ==
  {f \in sourceFiles : scriptVersion[f] # s.h.fileVersions[f]}

\* A variant of validate() that forgets no file.
missingFilesNone(s) == {}

\* The recorded files that are no source files of the program any more
\* (typescript_host.ts:267).
missingFiles(s) ==
  {f \in Files : s.h.fileVersions[f] # 0 /\ f \notin sourceFiles}

\* The body of validate() once the program is found changed
\* (typescript_host.ts:250-271), s being the host at the call.
revalidate(s) ==
  Then(clearCaches(markOld(s)), LAMBDA c :
  Then(changedFiles(c), LAMBDA changed :
  Then(missingFiles(c), LAMBDA missing :
  Then([c.h EXCEPT
          !.fileVersions = [f \in Files |->
                              IF f \in changed THEN scriptVersion[f]
                              ELSE IF f \in missing THEN 0
                              ELSE @[f]],
          !._staticSymbolResolver = invalidateFiles(@, changed \cup missing, NumFiles),
          !.lastProgram = program,
          !.validatedProgram = program],
       LAMBDA h1 :
         [h |-> h1,
          o |-> [s.o EXCEPT
                   !.validated = TRUE,
                   !.changedOnSame =
                      @ \/ (sameProgramAsLastValidate(s) /\ Fields(h1) # Fields(s.h)),
                   !.validate =
                      [detected |-> TRUE,
                       before |-> [fileVersions |-> s.h.fileVersions,
                                   lastProgram |-> s.h.lastProgram,
                                   collectedErrors |-> s.h.collectedErrors],
                       invalidated |-> changed \cup missing,
                       atReturn |-> Fields(h1)]]]))))

\* validate(): typescript_host.ts:247-273
validate(s) ==
  IF programChanged(s) THEN revalidate(s)
  ELSE [s EXCEPT !.o.validated = TRUE, !.h.validatedProgram = program]

\* get checker(): typescript_host.ts:239-245
checker(s) ==
  IF s.h._checker = 0
  THEN Read([s EXCEPT !.h._checker = program], "checker", program, FALSE)
  ELSE Read(s, "checker", s.h._checker, TRUE)

\* get reflectorHost(): typescript_host.ts:371-399
reflectorHost(s) ==
  IF s.h._reflectorHost THEN s
  ELSE Then(IF s.h.context = 0 THEN [s EXCEPT !.h.context = FirstScript] ELSE s,
            LAMBDA s1 :
              IF s1.h.context \notin sourceFiles THEN Throw(s1)
              ELSE [s1 EXCEPT !.h._reflectorHost = TRUE])

\* get staticSymbolResolver(): typescript_host.ts:414-429
staticSymbolResolver(s) ==
  IF s.h._staticSymbolResolver # Null THEN s
  ELSE Then(reflectorHost(s), LAMBDA s1 :
         IF s1.o.thrown THEN s1
         ELSE [s1 EXCEPT !.h._staticSymbolResolver = NewStaticSymbolResolver])

\* get reflector(): typescript_host.ts:431-440
reflector(s) ==
  IF s.h._reflector # Null THEN Read(s, "reflector", s.h._reflector.program, TRUE)
  ELSE Then(staticSymbolResolver(s), LAMBDA s1 :
         IF s1.o.thrown THEN s1
         ELSE Then([s1 EXCEPT !.h.reflectors = @ + 1,
                              !.h._reflector = [kind |-> "reflector",
                                                id |-> s1.h.reflectors + 1,
                                                program |-> program]],
                   LAMBDA s2 : Read(s2, "reflector", program, FALSE)))

\* get resolver(): typescript_host.ts:102-126
resolver(s) ==
  Then(validate(s), LAMBDA v :
    IF v.h._resolver # Null THEN Read(v, "resolver", v.h._resolver.program, TRUE)
    ELSE Then(reflector(v), LAMBDA s1 :
           IF s1.o.thrown THEN s1
           ELSE Then([s1 EXCEPT !.h._resolver = [kind |-> "resolver",
                                                 reflector |-> s1.h._reflector.id,
                                                 program |-> program]],
                     LAMBDA s2 : Read(s2, "resolver", program, FALSE))))

\* --------------------------------------------------------- module analysis
\* extractProgramSymbols(staticSymbolResolver, fileNames, host): the resolver
\* reads the metadata of every source file of the program.
extractProgramSymbols(s) == loadAll(s, NumFiles)

\* analyzeNgModules(programSymbols, host, resolver): metadata is read through
\* the resolver again (entries dropped since are reloaded); the result is a
\* new NgAnalyzedModules object summarising what was read for each file.
analyzeNgModules(s) ==
  Then(loadAll(s, NumFiles), LAMBDA s1 :
    [s1 EXCEPT !.h.analyses = @ + 1,
               !.o.result =
                  [kind |-> "modules",
                   id |-> s1.h.analyses + 1,
                   program |-> program,
                   files |-> [f \in Files |->
                                IF f \in sourceFiles
                                THEN s1.h._staticSymbolResolver.metadataCache[f]
                                ELSE NoMeta]]])

\* The body of ensureAnalyzedModules() when nothing is cached
\* (typescript_host.ts:162-168).
analyze(s) ==
  Then(staticSymbolResolver(s), LAMBDA s1 :
    IF s1.o.thrown THEN s1
    ELSE Then(extractProgramSymbols(s1), LAMBDA s2 :
         Then(resolver(s2), LAMBDA s3 :
           IF s3.o.thrown THEN s3
           ELSE Then(analyzeNgModules(s3), LAMBDA s4 :
                  Read([s4 EXCEPT !.h.analyzedModules = s4.o.result],
                       "analyzedModules", program, FALSE)))))

\* A variant of ensureAnalyzedModules() that never reuses this.analyzedModules.
ensureAnalyzedModulesNoMemo(s) == analyze(s)

\* ensureAnalyzedModules(): typescript_host.ts:159-171
ensureAnalyzedModules(s) ==
  IF s.h.analyzedModules # Null
  THEN Read([s EXCEPT !.o.result = s.h.analyzedModules],
            "analyzedModules", s.h.analyzedModules.program, TRUE)
  ELSE analyze(s)

\* getAnalyzedModules(): typescript_host.ts:154-157
getAnalyzedModules(s) ==
  Then(validate(s), LAMBDA v : ensureAnalyzedModules(v))

\* A variant of updateAnalyzedModules that does not look at modulesOutOfDate.
updateAnalyzedModulesAlways(s) ==
  Then(validate(s), LAMBDA v :
    Then(ensureAnalyzedModules(
           [v EXCEPT !.h.analyzedModules = Null,
                     !.h._reflector = Null,
                     !.h.templateReferences = Null,
                     !.h.fileToComponent = Null]),
         LAMBDA s1 :
           IF s1.o.thrown THEN s1
           ELSE [s1 EXCEPT !.h.modulesOutOfDate = FALSE, !.o.result = Null]))

\* updateAnalyzedModules(): typescript_host.ts:225-235
updateAnalyzedModules(s) ==
  Then(validate(s), LAMBDA v :
    IF ~v.h.modulesOutOfDate THEN v
    ELSE Then(ensureAnalyzedModules(
                [v EXCEPT !.h.analyzedModules = Null,
                          !.h._reflector = Null,
                          !.h.templateReferences = Null,
                          !.h.fileToComponent = Null]),
              LAMBDA s1 :
                IF s1.o.thrown THEN s1
                ELSE [s1 EXCEPT !.h.modulesOutOfDate = FALSE, !.o.result = Null]))

\* The name every component class of a file of the kinds above goes by.
ComponentName == "C"

\* The resolved path of the external template of the component of file f
\* (urlResolver.resolve(componentModuleUrl(...), templateUrl)); no source
\* file of the program has such a name.
templateName(f) == 0 - f

\* A variant of templateUrls that lists the path of every component, with or
\* without a templateUrl.
RECURSIVE templateUrlsOfAllComponents(_, _)
templateUrlsOfAllComponents(modules, n) ==
  IF n = 0 THEN <<>>
  ELSE IF modules.files[n].kind \in {"ok", "url", "reports"}
       THEN Append(templateUrlsOfAllComponents(modules, n - 1), templateName(n))
       ELSE templateUrlsOfAllComponents(modules, n - 1)

\* The template paths of the components that declare a templateUrl, in scan
\* order (templateReference.push(templateName), typescript_host.ts:299).
RECURSIVE templateUrls(_, _)
templateUrls(modules, n) ==
  IF n = 0 THEN <<>>
  ELSE IF modules.files[n].kind = "url"
       THEN Append(templateUrls(modules, n - 1), templateName(n))
       ELSE templateUrls(modules, n - 1)

\* Map.set(key, value)
set(map, key, value) ==
  [k \in DOMAIN map \cup {key} |-> IF k = key THEN value ELSE map[k]]

\* The file-to-component index after the scan of the first n files
\* (fileToComponent.set(templateName, directive.reference),
\* typescript_host.ts:298).
RECURSIVE fileToComponent(_, _)
fileToComponent(modules, n) ==
  IF n = 0 THEN [k \in {} |-> Null]
  ELSE IF modules.files[n].kind = "url"
       THEN set(fileToComponent(modules, n - 1), templateName(n),
                [filePath |-> n, name |-> ComponentName])
       ELSE fileToComponent(modules, n - 1)

declaredDirectives(modules) ==
  {f \in Files : modules.files[f].kind \in {"ok", "url", "reports"}}

\* The body of ensureTemplateMap() when a map is missing
\* (typescript_host.ts:285-303).
buildTemplateMap(s) ==
  Then(getAnalyzedModules(s), LAMBDA s1 :
    IF s1.o.thrown THEN s1
    ELSE Then(s1.o.result, LAMBDA ngModuleSummary :
         Then(IF declaredDirectives(ngModuleSummary) = {} THEN s1
              ELSE Then(resolver(s1), LAMBDA r :
                     IF r.o.thrown \/ templateUrls(ngModuleSummary, NumFiles) = <<>>
                     THEN r
                     ELSE reflector(r)),
              LAMBDA s2 :
                IF s2.o.thrown THEN s2
                ELSE [s2 EXCEPT
                        !.h.fileToComponent =
                           [kind |-> "map", program |-> ngModuleSummary.program,
                            get |-> fileToComponent(ngModuleSummary, NumFiles)],
                        !.h.templateReferences =
                           [kind |-> "refs", program |-> ngModuleSummary.program,
                            templates |-> templateUrls(ngModuleSummary, NumFiles)],
                        !.o.result = Null])))

\* ensureTemplateMap(): typescript_host.ts:283-305
ensureTemplateMap(s) ==
  IF s.h.fileToComponent # Null /\ s.h.templateReferences # Null
  THEN Read(s, "fileToComponent", s.h.fileToComponent.program, TRUE)
  ELSE buildTemplateMap(s)

\* getTemplateReferences(): typescript_host.ts:128-131
getTemplateReferences(s) ==
  Then(ensureTemplateMap(s), LAMBDA s1 :
    IF s1.o.thrown THEN s1
    ELSE Read([s1 EXCEPT !.o.result = s1.h.templateReferences],
              "templateReferences", s1.h.templateReferences.program,
              s.h.templateReferences # Null))

\* The nodes after i that are not in i's subtree begin here.
RECURSIVE endOfSubtree(_, _, _)
endOfSubtree(nodes, i, j) ==
  IF j > Len(nodes) \/ nodes[j].start >= nodes[i].end THEN j
  ELSE endOfSubtree(nodes, i, j + 1)

\* Node c is the call expression of a decorator of class i
\* (decorator.expression.kind == CallExpression).
isDecoratorCall(nodes, i, c) ==
  /\ nodes[c].kind = "CallExpression"
  /\ nodes[nodes[c].parent].kind = "Decorator"
  /\ nodes[nodes[c].parent].parent = i

\* A call in progress at the return of a function that yields a value.
Yield(s, value) == [h |-> s.h, o |-> s.o, node |-> value]

\* The Declaration returned for the class at node i of file f, whose
\* decorator call is node c.
Declaration(s, f, nodes, i, c, metadata) ==
  Yield(s, [kind |-> "declaration",
            type |-> [filePath |-> f, name |-> nodes[i].text],
            declarationSpan |-> spanOf(nodes[c + 1]),
            metadata |-> metadata,
            errors |-> getCollectedErrors(s, spanOf(nodes[c + 1]), f)])

\* One round of the decorator loop of getDeclarationFromNode, for decorator
\* call c of class i (typescript_host.ts:517-551).  The target of the call
\* is node c + 1.  A decorator whose target has no type is passed over
\* (523); an exception of the resolver that has a message is collected and
\* answered with a Declaration without metadata (539-547), one without
\* message is swallowed and the loop goes on to the next decorator.
RECURSIVE getDeclarationFromDecorators(_, _, _, _, _)
getDeclarationFromDecorators(s, f, nodes, i, c) ==
  IF c > Len(nodes) THEN Yield(s, Null)
  ELSE IF ~isDecoratorCall(nodes, i, c)
  THEN getDeclarationFromDecorators(s, f, nodes, i, c + 1)
  ELSE
  Then(checker(s), LAMBDA s1 :
    IF nodes[c + 1].resolves = "untyped"
    THEN getDeclarationFromDecorators(s1, f, nodes, i, c + 1)
    ELSE
    Then(reflector(s1), LAMBDA s2 :
      IF s2.o.thrown THEN Yield(s2, Null)
      ELSE Then(resolver(s2), LAMBDA s3 :
           Then(loadMetadata(s3, f), LAMBDA s4 :
             CASE nodes[i].resolves = "throws" ->
                    Then(collectError(s4, ResolutionError(f, nodes[i].text), f), LAMBDA s5 :
                      Declaration(s5, f, nodes, i, c, FALSE))
               [] nodes[i].resolves = "silent" ->
                    getDeclarationFromDecorators(s4, f, nodes, i, c + 1)
               [] nodes[i].resolves = "directive" ->
                    Declaration(s4, f, nodes, i, c, TRUE)
               [] OTHER ->
                    getDeclarationFromDecorators(s4, f, nodes, i, c + 1)))))

\* getDeclarationFromNode(sourceFile, node) for node i of file f:
\* typescript_host.ts:513-554
getDeclarationFromNode(s, f, nodes, i) ==
  IF nodes[i].kind = "ClassDeclaration" /\ nodes[i].text # ""
  THEN getDeclarationFromDecorators(s, f, nodes, i, 1)
  ELSE Yield(s, Null)

\* The visit closure of getDeclarations over the nodes from i on
\* (typescript_host.ts:208-216): a node that yields a Declaration is pushed
\* and its children are skipped, any other node's children are visited.
RECURSIVE visitDeclarations(_, _, _, _)
visitDeclarations(s, f, nodes, i) ==
  IF i > Len(nodes) \/ s.o.thrown THEN s
  ELSE Then(getDeclarationFromNode(s, f, nodes, i), LAMBDA s1 :
         IF s1.o.thrown THEN s1
         ELSE IF s1.node # Null
         THEN visitDeclarations(
                [s1 EXCEPT !.o.result.list = Append(@, s1.node)],
                f, nodes, endOfSubtree(nodes, i, i + 1))
         ELSE visitDeclarations(s1, f, nodes, i + 1))

\* A variant of getSourceFile that ignores the file name.
getSourceFileOfFirstScript(f) == ast[FirstScript]

\* getSourceFile(fileName): typescript_host.ts:221-223
getSourceFile(f) == IF f \in sourceFiles THEN ast[f] ELSE <<>>

\* getDeclarations(fileName): typescript_host.ts:204-219
getDeclarations(s, f) ==
  Then([s EXCEPT !.o.result = [kind |-> "declarations", list |-> <<>>]], LAMBDA s0 :
    IF getSourceFile(f) = <<>> THEN s0
    ELSE visitDeclarations(s0, f, getSourceFile(f), 2))

\* ---------------------------------------------------------------- templates
\* What a call can be given as a file name: a source file or the path of an
\* external template.
FileNames == Files \cup {templateName(f) : f \in Files}

\* this.fileToComponent.get(fileName): the StaticSymbol of the component
\* registered for a template path, Null if there is none.
componentOf(h, fileName) ==
  IF fileName \in DOMAIN h.fileToComponent.get
  THEN h.fileToComponent.get[fileName]
  ELSE Null

\* A variant of shrink that leaves the span as it is.
shrinkByNothing(span) == span

\* shrink(span, offset) with the default offset: typescript_host.ts:1235-1238
shrink(span) == [start |-> span.start + 1, end |-> span.end - 1]

\* stringOf(node): typescript_host.ts:556-563
stringOf(node) == IF node.kind \in LiteralKinds THEN node.text ELSE ""

\* find(node) of findNode: typescript_host.ts:566-570.  0 is undefined.
RECURSIVE find(_, _, _)
find(nodes, i, position) ==
  IF position >= nodes[i].start /\ position < nodes[i].end
  THEN Then({find(nodes, j, position) : j \in {c \in 1..Len(nodes) : nodes[c].parent = i}} \ {0},
            LAMBDA found :
              IF found = {} THEN i
              ELSE CHOOSE j \in found : \A k \in found : j <= k)
  ELSE 0

\* findNode(sourceFile, position): typescript_host.ts:565-573
findNode(nodes, position) == find(nodes, 1, position)

\* A variant of getTemplateClassDeclFromNode that accepts a property
\* assignment of any name.
getTemplateClassDeclOfAnyProperty(nodes, currentToken) ==
  LET propertyAssignment == nodes[currentToken].parent IN
  IF propertyAssignment = 0 THEN 0
  ELSE IF nodes[propertyAssignment].kind # "PropertyAssignment" THEN 0
  ELSE
  LET objectLiteral == nodes[propertyAssignment].parent IN
  IF objectLiteral = 0 \/ nodes[objectLiteral].kind # "ObjectLiteralExpression" THEN 0
  ELSE
  LET callExpression == nodes[objectLiteral].parent IN
  IF callExpression = 0 \/ nodes[callExpression].kind # "CallExpression" THEN 0
  ELSE
  LET decorator == nodes[callExpression].parent IN
  IF decorator = 0 \/ nodes[decorator].kind # "Decorator" THEN 0
  ELSE
  LET declaration == nodes[decorator].parent IN
  IF declaration = 0 \/ nodes[declaration].kind # "ClassDeclaration" THEN 0
  ELSE declaration

\* getTemplateClassDeclFromNode(currentToken): typescript_host.ts:466-503.
\* The class declaration, 0 for missingTemplate.
getTemplateClassDeclFromNode(nodes, currentToken) ==
  LET propertyAssignment == nodes[currentToken].parent IN
  IF propertyAssignment = 0 THEN 0
  ELSE IF nodes[propertyAssignment].kind # "PropertyAssignment" THEN 0
  ELSE IF nodes[propertyAssignment].text # "template" THEN 0
  ELSE
  LET objectLiteral == nodes[propertyAssignment].parent IN
  IF objectLiteral = 0 \/ nodes[objectLiteral].kind # "ObjectLiteralExpression" THEN 0
  ELSE
  LET callExpression == nodes[objectLiteral].parent IN
  IF callExpression = 0 \/ nodes[callExpression].kind # "CallExpression" THEN 0
  ELSE
  LET decorator == nodes[callExpression].parent IN
  IF decorator = 0 \/ nodes[decorator].kind # "Decorator" THEN 0
  ELSE
  LET declaration == nodes[decorator].parent IN
  IF declaration = 0 \/ nodes[declaration].kind # "ClassDeclaration" THEN 0
  ELSE declaration

\* getSourceFromDeclaration(...): typescript_host.ts:307-335.  The members
\* and query getters are not evaluated here.
getSourceFromDeclaration(fileName, source, span, type, declaration, node) ==
  [kind |-> "template", fileName |-> fileName,
   version |-> IF fileName \in Files THEN scriptVersion[fileName] ELSE 0,
   source |-> source, span |-> span, type |-> type,
   declaration |-> declaration, node |-> node]

\* getSourceFromNode(fileName, version, node): typescript_host.ts:337-355.
\* The TemplateSource (Null for undefined) is yielded.
getSourceFromNode(s, fileName, nodes, node) ==
  IF nodes[node].kind \notin LiteralKinds THEN Yield(s, Null)
  ELSE Then(getTemplateClassDeclFromNode(nodes, node), LAMBDA declaration :
         IF declaration = 0 \/ nodes[declaration].text = "" THEN Yield(s, Null)
         ELSE Then(reflector(s), LAMBDA s1 :
                IF s1.o.thrown THEN Yield(s1, Null)
                ELSE Yield(s1, getSourceFromDeclaration(
                                 fileName, stringOf(nodes[node]),
                                 shrink(spanOf(nodes[node])),
                                 [filePath |-> fileName, name |-> nodes[declaration].text],
                                 declaration, node))))

\* getTemplateClassFromStaticSymbol(type): typescript_host.ts:442-458.  The
\* first top-level class declaration of that name, 0 if there is none, -1 if
\* an unnamed class comes first (reading its name's text throws).
getTemplateClassFromStaticSymbol(type) ==
  LET nodes == getSourceFile(type.filePath)
      classes == {i \in 1..Len(nodes) :
                    /\ nodes[i].parent = 1
                    /\ nodes[i].kind = "ClassDeclaration"
                    /\ nodes[i].text \in {type.name, ""}}
  IN IF nodes = <<>> \/ classes = {} THEN 0
     ELSE LET first == CHOOSE i \in classes : \A j \in classes : i <= j
          IN IF nodes[first].text = "" THEN 0 - 1 ELSE first

\* The text of an external template (host.getScriptSnapshot(fileName)).
TemplateText == "html"

\* getSourceFromType(fileName, version, type): typescript_host.ts:357-369
getSourceFromType(s, fileName, type) ==
  Then(getTemplateClassFromStaticSymbol(type), LAMBDA declaration :
    IF declaration < 0 THEN Yield(Throw(s), Null)
    ELSE IF declaration = 0 THEN Yield(s, Null)
    ELSE Yield(s, getSourceFromDeclaration(
                    fileName, TemplateText, [start |-> 0, end |-> Len(TemplateText)],
                    type, declaration, declaration)))

\* getTemplateAt(fileName, position): typescript_host.ts:133-152
getTemplateAt(s, fileName, position) ==
  IF getSourceFile(fileName) # <<>>
  THEN Then([s EXCEPT !.h.context = fileName], LAMBDA s1 :
       Then(findNode(getSourceFile(fileName), position), LAMBDA node :
         IF node = 0 THEN Yield(s1, Null)
         ELSE getSourceFromNode(s1, fileName, getSourceFile(fileName), node)))
  ELSE Then(ensureTemplateMap(s), LAMBDA s1 :
         IF s1.o.thrown THEN Yield(s1, Null)
         ELSE Then(componentOf(s1.h, fileName), LAMBDA componentType :
                IF componentType = Null THEN Yield(s1, Null)
                ELSE getSourceFromType(s1, fileName, componentType)))

\* A variant of the visit closure of getTemplates that ends the walk at the
\* first TemplateSource.
RECURSIVE visitTemplatesUpToFirst(_, _, _, _)
visitTemplatesUpToFirst(s, fileName, nodes, i) ==
  IF i > Len(nodes) \/ s.o.thrown THEN s
  ELSE Then(getSourceFromNode(s, fileName, nodes, i), LAMBDA s1 :
         IF s1.o.thrown THEN s1
         ELSE IF s1.node # Null
         THEN [s1 EXCEPT !.o.result.list = Append(@, s1.node)]
         ELSE visitTemplatesUpToFirst(s1, fileName, nodes, i + 1))

\* The visit closure of getTemplates over the nodes from i on
\* (typescript_host.ts:185-192): a node that yields a TemplateSource is pushed
\* and its children are skipped, any other node's children are visited.
RECURSIVE visitTemplates(_, _, _, _)
visitTemplates(s, fileName, nodes, i) ==
  IF i > Len(nodes) \/ s.o.thrown THEN s
  ELSE Then(getSourceFromNode(s, fileName, nodes, i), LAMBDA s1 :
         IF s1.o.thrown THEN s1
         ELSE IF s1.node # Null
         THEN visitTemplates(
                [s1 EXCEPT !.o.result.list = Append(@, s1.node)],
                fileName, nodes, endOfSubtree(nodes, i, i + 1))
         ELSE visitTemplates(s1, fileName, nodes, i + 1))

\* The result of a call that yields a value.
Return(s) == [h |-> s.h, o |-> IF s.o.thrown THEN s.o ELSE [s.o EXCEPT !.result = s.node]]

\* getTemplates(fileName): typescript_host.ts:173-202
getTemplates(s, fileName) ==
  Then(ensureTemplateMap(s), LAMBDA s1 :
    IF s1.o.thrown THEN s1
    ELSE IF componentOf(s1.h, fileName) # Null
    THEN Then(getTemplateAt(s1, fileName, 0), LAMBDA s2 :
           IF s2.o.thrown THEN s2
           ELSE IF s2.node # Null
           THEN [s2 EXCEPT !.o.result = [kind |-> "templates", list |-> <<s2.node>>]]
           ELSE [s2 EXCEPT !.o.result = Null])
    ELSE IF getSourceFile(fileName) = <<>> THEN [s1 EXCEPT !.o.result = Null]
    ELSE Then(visitTemplates(
                [s1 EXCEPT !.h.context = fileName,
                           !.o.result = [kind |-> "templates", list |-> <<>>]],
                fileName, getSourceFile(fileName), 2),
              LAMBDA s2 :
                IF s2.o.thrown \/ s2.o.result.list # <<>> THEN s2
                ELSE [s2 EXCEPT !.o.result = Null]))

\* ------------------------------------------------------------------ actions
TypeOK ==
  /\ program \in 1..MaxProgram
  /\ sourceFiles \subseteq Files
  /\ scriptVersion \in [Files -> 1..MaxProgram]
  /\ content \in [Files -> Kinds]

Init ==
  /\ program = 1
  /\ sourceFiles \in SUBSET Files
  /\ scriptVersion = [f \in Files |-> 1]
  /\ content \in {c \in [Files -> Kinds] :
                    \A f \in Files \ sourceFiles : c[f] = "none"}
  /\ host = NewHost
  /\ call = FirstCall
  /\ ast = [f \in Files |-> Parse(content[f])]
  /\ query = Null

\* A public call ran to its end (returned or threw).
Do(e) ==
  \E s \in {e} :
    /\ ErrorCount(s.h) <= MaxErrors
    /\ host' = s.h
    /\ call' = s.o
    /\ UNCHANGED <<program, sourceFiles, scriptVersion, content, ast, query>>

GetAnalyzedModules ==
  \E s \in {Start("getAnalyzedModules", 0)} : Do(getAnalyzedModules(s))

UpdateAnalyzedModules ==
  \E s \in {Start("updateAnalyzedModules", 0)} : Do(updateAnalyzedModules(s))

GetTemplateReferences ==
  \E s \in {Start("getTemplateReferences", 0)} : Do(getTemplateReferences(s))

GetDeclarations ==
  \E f \in Files : \E s \in {Start("getDeclarations", f)} : Do(getDeclarations(s, f))

Resolver ==
  \E s \in {Start("resolver", 0)} : Do(resolver(s))

\* The editor changes a file: new text, new version stamp, new program.
EditFile ==
  \E f \in sourceFiles, k \in Kinds :
    /\ program < MaxProgram
    /\ program' = program + 1
    /\ scriptVersion' = [scriptVersion EXCEPT ![f] = @ + 1]
    /\ content' = [content EXCEPT ![f] = k]
    /\ ast' = [ast EXCEPT ![f] = Parse(k)]
    /\ call' = NewCall("edit", f)
    /\ UNCHANGED <<sourceFiles, host, query>>

\* A file leaves the program (its text is no longer anyone's concern).
RemoveFile ==
  \E f \in sourceFiles :
    /\ program < MaxProgram
    /\ program' = program + 1
    /\ sourceFiles' = sourceFiles \ {f}
    /\ content' = [content EXCEPT ![f] = "none"]
    /\ ast' = [ast EXCEPT ![f] = Parse("none")]
    /\ call' = NewCall("remove", f)
    /\ UNCHANGED <<scriptVersion, host, query>>

\* A file joins the program, with some text and a version stamp of its own.
AddFile ==
  \E f \in Files \ sourceFiles, k \in Kinds :
    /\ program < MaxProgram
    /\ program' = program + 1
    /\ sourceFiles' = sourceFiles \cup {f}
    /\ scriptVersion' = [scriptVersion EXCEPT ![f] = @ + 1]
    /\ content' = [content EXCEPT ![f] = k]
    /\ ast' = [ast EXCEPT ![f] = Parse(k)]
    /\ call' = NewCall("add", f)
    /\ UNCHANGED <<host, query>>

Next ==
  \/ GetAnalyzedModules
  \/ UpdateAnalyzedModules
  \/ GetTemplateReferences
  \/ GetDeclarations
  \/ Resolver
  \/ EditFile
  \/ RemoveFile
  \/ AddFile

Spec == Init /\ [][Next]_vars

\* ------------------------------------------------- files of many shapes
\* @Component(arguments) class name {}
Decorated(name, resolves, arguments) ==
  ClassDeclaration(name, resolves,
    <<Decorator(CallExpression(Identifier("Component"), arguments))>>, <<>>)

\* {template: 't'}
TemplateObject ==
  ObjectLiteralExpression(<<PropertyAssignment("template", StringLiteral("t"))>>)

\* Top-level statements: components whose template is found, and statements
\* in which one link between a literal and a named class is absent or of
\* another kind.
Statements(name) ==
  {Component(name, r, "template", StringLiteral("t")) :
     r \in {"directive", "throws", "silent", "other"}}
  \cup
  { Component(name, "directive", "template", NoSubstitutionTemplateLiteral("t")),
    Component(name, "directive", "templateUrl", StringLiteral("t")),
    Component(name, "directive", "template", NumericLiteral("1")),
    Component("", "directive", "template", StringLiteral("t")),
    \* @Component({'template': 't'})
    Decorated(name, "directive",
      <<ObjectLiteralExpression(<<QuotedPropertyAssignment("template", StringLiteral("t"))>>)>>),
    \* @Component({template: ['t']})
    Decorated(name, "directive",
      <<ObjectLiteralExpression(<<PropertyAssignment("template",
          ArrayLiteralExpression(<<StringLiteral("t")>>))>>)>>),
    \* @Component({host: {template: 't'}})
    Decorated(name, "directive",
      <<ObjectLiteralExpression(<<PropertyAssignment("host", TemplateObject)>>)>>),
    \* @Component([{template: 't'}])
    Decorated(name, "directive", <<ArrayLiteralExpression(<<TemplateObject>>)>>),
    \* @Component('t')
    Decorated(name, "directive", <<StringLiteral("t")>>),
    \* @Injectable() @Component({template: 't'}), resolving or throwing
    ClassDeclaration(name, "directive",
      <<Decorator(CallExpression(Identifier("Injectable"), <<>>)),
        Decorator(CallExpression(Identifier("Component"), <<TemplateObject>>))>>, <<>>),
    ClassDeclaration(name, "throws",
      <<Decorator(CallExpression(Identifier("Injectable"), <<>>)),
        Decorator(CallExpression(Identifier("Component"), <<TemplateObject>>))>>, <<>>),
    \* @Component({template: 't'}) with a Component the checker has no type
    \* for, alone and before a decorator that has a type
    ClassDeclaration(name, "directive",
      <<Decorator(CallExpression(UntypedIdentifier("Component"), <<TemplateObject>>))>>,
      <<>>),
    ClassDeclaration(name, "directive",
      <<Decorator(CallExpression(UntypedIdentifier("Injectable"), <<>>)),
        Decorator(CallExpression(Identifier("Component"), <<TemplateObject>>))>>, <<>>),
    \* @Foo class name {}
    ClassDeclaration(name, "other", <<Decorator(Identifier("Foo"))>>, <<>>),
    \* class name { @Input({template: 't'}) m() {} }
    ClassDeclaration(name, "other", <<>>,
      <<MethodDeclaration("m",
          <<Decorator(CallExpression(Identifier("Input"), <<TemplateObject>>))>>)>>),
    \* f({template: 't'});
    ExpressionStatement(CallExpression(Identifier("f"), <<TemplateObject>>)),
    \* const x = 't';
    VariableStatement(StringLiteral("t")) }

\* Statements that may follow another in a file.
SecondStatements ==
  {Component("D", r, "template", StringLiteral("t")) : r \in {"directive", "throws"}}

\* The texts a file is examined with: one statement, or two.
SourceTexts ==
  {SourceFile(<<a>>) : a \in Statements(ComponentName)}
  \cup {SourceFile(<<a, b>>) : a \in Statements(ComponentName), b \in SecondStatements}

\* What the compiler makes of a file as a whole, as one of Kinds.
metadataKind(nodes) ==
  LET classes == {i \in 1..Len(nodes) :
                    nodes[i].kind = "ClassDeclaration" /\ nodes[i].text # ""
                    /\ \E c \in 1..Len(nodes) : isDecoratorCall(nodes, i, c)}
  IN IF \E i \in classes : nodes[i].resolves = "throws" THEN "throws"
     ELSE IF \E i \in classes : nodes[i].resolves = "directive"
     THEN (IF \E j \in 1..Len(nodes) :
                nodes[j].kind = "PropertyAssignment" /\ nodes[j].text = "templateUrl"
           THEN "url" ELSE "ok")
     ELSE "none"

\* The file examined.
Examined == FirstScript

\* A new host over a program whose first file has any of the texts.
InitTree ==
  /\ program = 1
  /\ sourceFiles = Files
  /\ scriptVersion = [f \in Files |-> 1]
  /\ ast \in {[f \in Files |-> IF f = Examined THEN createSourceFile(text) ELSE Parse("none")] :
                text \in SourceTexts}
  /\ content = [f \in Files |-> metadataKind(ast[f])]
  /\ host = NewHost
  /\ call = FirstCall
  /\ query = Null

\* Positions run over the whole file and one past its end; the position
\* given with the path of an external template is not looked at.
GetTemplateAt ==
  \E fileName \in {Examined, templateName(Examined)} :
    \E position \in IF fileName \in Files THEN 0..ast[fileName][1].end ELSE {0} :
      \E s \in {Start("getTemplateAt", <<fileName, position>>)} :
        Do(Return(getTemplateAt(s, fileName, position)))

GetTemplates ==
  \E fileName \in {Examined, templateName(Examined)} :
    \E s \in {Start("getTemplates", fileName)} : Do(getTemplates(s, fileName))

GetDeclarationsOfExamined ==
  \E s \in {Start("getDeclarations", Examined)} : Do(getDeclarations(s, Examined))

NextTree ==
  \/ GetTemplateAt
  \/ GetTemplates
  \/ GetDeclarationsOfExamined

SpecTree == InitTree /\ [][NextTree]_vars

\* ------------------------------------------------------- the file context
\* Programs whose files hold a clean component or no decorated class, queried
\* for templates at every position of every file while files leave and join
\* the program.
InitContext ==
  /\ Init
  /\ \A f \in Files : content[f] \in {"none", "ok"}

GetTemplateAtOfAnyFile ==
  \E fileName \in Files :
    \E position \in 0..ast[fileName][1].end :
      \E s \in {Start("getTemplateAt", <<fileName, position>>)} :
        Do(Return(getTemplateAt(s, fileName, position)))

NextContext ==
  \/ GetTemplateAtOfAnyFile
  \/ GetAnalyzedModules
  \/ GetDeclarations
  \/ RemoveFile
  \/ AddFile

SpecContext == InitContext /\ [][NextContext]_vars

\* ------------------------------------------------------------ symbol query
\* The members of the BuiltinType enumeration.
BuiltinType == {"Any", "String", "Number", "Boolean", "Undefined", "Null", "Unbound", "Other"}

\* The synthetic expression getBuiltinTypeFromTs hands to
\* checker.getTypeAtLocation for a kind, parented onto context.node
\* (typescript_host.ts:1184-1218); Null for a kind it has no case for.
syntheticNode(kind, node) ==
  CASE kind = "Any" ->
         [kind |-> "AsExpression", expression |-> "TrueKeyword", parent |-> node]
    [] kind = "Boolean" ->
         [kind |-> "TrueKeyword", expression |-> "", parent |-> node]
    [] kind = "Null" ->
         [kind |-> "NullKeyword", expression |-> "", parent |-> node]
    [] kind = "Number" ->
         [kind |-> "NumericLiteral", expression |-> "",
          parent |-> [kind |-> "ExpressionStatement", parent |-> node]]
    [] kind = "String" ->
         [kind |-> "NoSubstitutionTemplateLiteral", expression |-> "", parent |-> node]
    [] kind = "Undefined" ->
         [kind |-> "VoidExpression", expression |-> "NumericLiteral", parent |-> node]
    [] OTHER -> Null

\* checker.getTypeAtLocation(node) for the synthetic expressions: the
\* ts.Type of the expression's kind.
getTypeAtLocation(node) ==
  [kind |-> "type",
   flags |-> CASE node.kind = "AsExpression" -> "Any"
               [] node.kind = "TrueKeyword" -> "Boolean"
               [] node.kind = "NullKeyword" -> "Null"
               [] node.kind = "NumericLiteral" -> "Number"
               [] node.kind = "NoSubstitutionTemplateLiteral" -> "String"
               [] node.kind = "VoidExpression" -> "Undefined"]

\* A ts.Type of the host checker: its flags, the name of its symbol ("" for
\* a type without symbol), its type arguments and its call signatures.
TsType(flags, name, typeArguments, callSignatures) ==
  [kind |-> "type", flags |-> flags, name |-> name,
   typeArguments |-> typeArguments, callSignatures |-> callSignatures]

StringType == TsType("String", "", <<>>, <<>>)

NumberType == TsType("Number", "", <<>>, <<>>)

AnyType == TsType("Any", "", <<>>, <<>>)

\* name<T> (name alone for typeArguments <<>>)
TypeReference(name, typeArguments) == TsType("Object", name, typeArguments, <<>>)

ArrayOfNumber == TypeReference("Array", <<NumberType>>)

\* A variant of getTypeParameterOf that yields the type itself.
getTypeItself(tsType, name) == tsType

\* getTypeParameterOf(type, name): typescript_host.ts:1297-1304
getTypeParameterOf(tsType, name) ==
  IF tsType.name = name /\ Len(tsType.typeArguments) <= 1
  THEN (IF Len(tsType.typeArguments) = 0 THEN Null ELSE tsType.typeArguments[1])
  ELSE Null

\* TypeWrapper.name: typescript_host.ts:768-771 (a type of the builtin
\* lookups has no symbol).
typeName(tsType) ==
  IF "name" \in DOMAIN tsType /\ tsType.name # "" THEN tsType.name
  ELSE "<anonymous>"

\* new TypeScriptSymbolQuery(program, checker, source, fetchPipes):
\* typescript_host.ts:609-615.  lookups and wrappers are bookkeeping: the
\* number of checker lookups made for each kind and of TypeWrapper objects
\* constructed.
TypeScriptSymbolQuery(source) ==
  [kind |-> "query", source |-> source,
   typeCache |-> [k \in BuiltinType |-> Null],
   lookups |-> [k \in BuiltinType |-> 0],
   wrappers |-> 0]

\* getBuiltinTypeFromTs(kind, context): typescript_host.ts:1180-1223.  The
\* type is left in o.result.
getBuiltinTypeFromTs(s, kind) ==
  IF syntheticNode(kind, s.q.source) = Null THEN Throw(s)
  ELSE [s EXCEPT !.q.lookups[kind] = @ + 1,
                 !.o.result = getTypeAtLocation(syntheticNode(kind, s.q.source))]

\* new TypeWrapper(type, context): typescript_host.ts:761-773
TypeWrapper(s, type) ==
  IF type = Null THEN Throw(s)
  ELSE [s EXCEPT !.q.wrappers = @ + 1,
                 !.o.result = [kind |-> "type", id |-> s.q.wrappers + 1,
                               name |-> typeName(type), tsType |-> type]]

\* The body of getBuiltinType(kind) when the kind is not cached
\* (typescript_host.ts:622-628).
lookupBuiltinType(s, kind) ==
  Then(getBuiltinTypeFromTs(s, kind), LAMBDA s1 :
    IF s1.o.thrown THEN s1
    ELSE Then(TypeWrapper(s1, s1.o.result), LAMBDA s2 :
           IF s2.o.thrown THEN s2
           ELSE [s2 EXCEPT !.q.typeCache[kind] = s2.o.result]))

\* A variant of getBuiltinType(kind) that never consults the type cache.
getBuiltinTypeNoCache(s, kind) == lookupBuiltinType(s, kind)

\* TypeScriptSymbolQuery.getBuiltinType(kind): typescript_host.ts:619-630
getBuiltinType(s, kind) ==
  IF s.q.typeCache[kind] # Null
  THEN [s EXCEPT !.o.result = s.q.typeCache[kind]]
  ELSE lookupBuiltinType(s, kind)

\* The ts.Type values the symbols handed to a query wrap: any, string,
\* number, null, string | null and number | undefined.
TsTypes ==
  {[kind |-> "type", flags |-> f] :
     f \in {"Any", "String", "Number", "Null", "StringOrNull", "NumberOrUndefined"}}

\* checker.getNonNullableType(type): the type without null and undefined;
\* a type that has neither is returned as it is.
checkerGetNonNullableType(type) ==
  IF type.flags \in {"StringOrNull", "NumberOrUndefined", "Null", "Undefined"}
  THEN [kind |-> "type",
        flags |-> CASE type.flags = "StringOrNull" -> "String"
                    [] type.flags = "NumberOrUndefined" -> "Number"
                    [] OTHER -> "Never"]
  ELSE type

\* A TypeWrapper constructed outside the query, around type.
ForeignTypeWrapper(type) ==
  [kind |-> "type", id |-> 0, name |-> typeName(type), tsType |-> type]

\* A symbol that is no TypeWrapper (a DeclaredSymbol of a template variable).
ForeignDeclaredSymbol ==
  [kind |-> "variable", id |-> 0, name |-> "v", tsType |-> Null]

\* TypeScriptSymbolQuery.getNonNullableType(symbol): typescript_host.ts:652-661
\* (a checker that has getNonNullableType, as every checker since
\* TypeScript 2.0 has).
getNonNullableType(s, symbol) ==
  IF symbol.kind = "type"
     /\ checkerGetNonNullableType(symbol.tsType) # symbol.tsType
  THEN TypeWrapper(s, checkerGetNonNullableType(symbol.tsType))
  ELSE getBuiltinType(s, "Any")

\* TypeScriptSymbolQuery.getTypeUnion(...types): typescript_host.ts:632-636
\* (no union is built: the last type, or any for no type at all)
getTypeUnion(s, types) ==
  IF Len(types) # 0 THEN [s EXCEPT !.o.result = types[Len(types)]]
  ELSE getBuiltinType(s, "Any")

\* TypeScriptSymbolQuery.getArrayType(type): typescript_host.ts:638-641
getArrayType(s, symbol) == getBuiltinType(s, "Any")

\* TypeScriptSymbolQuery.getElementType(type): typescript_host.ts:643-650
getElementType(s, symbol) ==
  IF symbol.kind = "type" /\ getTypeParameterOf(symbol.tsType, "Array") # Null
  THEN TypeWrapper(s, getTypeParameterOf(symbol.tsType, "Array"))
  ELSE [s EXCEPT !.o.result = Null]

\* A symbol query for the source file of a component, nothing asked yet.
InitQuery ==
  /\ program = 1
  /\ sourceFiles = Files
  /\ scriptVersion = [f \in Files |-> 1]
  /\ content = [f \in Files |-> "ok"]
  /\ host = NewHost
  /\ call = FirstCall
  /\ ast = [f \in Files |-> Parse(content[f])]
  /\ query \in {TypeScriptSymbolQuery(f) : f \in Files}

\* A call on the query ran to its end (returned or threw).
DoQuery(e) ==
  \E s \in {e} :
    /\ s.q.wrappers <= MaxWrappers
    /\ query' = s.q
    /\ call' = s.o
    /\ UNCHANGED <<program, sourceFiles, scriptVersion, content, host, ast>>

GetBuiltinType ==
  \E kind \in BuiltinType :
    \E s \in {[q |-> query, o |-> NewCall("getBuiltinType", kind)]} :
      DoQuery(getBuiltinType(s, kind))

\* The symbol is one made outside the query or the one the last call
\* returned.
GetNonNullableType ==
  \E symbol \in {ForeignTypeWrapper(type) : type \in TsTypes}
                 \cup {ForeignDeclaredSymbol}
                 \cup (IF call.result # Null /\ ~call.thrown THEN {call.result} ELSE {}) :
    \E s \in {[q |-> query, o |-> NewCall("getNonNullableType", symbol)]} :
      DoQuery(getNonNullableType(s, symbol))

\* The types are symbols made outside the query.
GetTypeUnion ==
  \E types \in {<<>>, <<ForeignDeclaredSymbol>>,
                 <<ForeignDeclaredSymbol, ForeignTypeWrapper(StringType)>>} :
    \E s \in {[q |-> query, o |-> NewCall("getTypeUnion", types)]} :
      DoQuery(getTypeUnion(s, types))

GetArrayType ==
  \E symbol \in {ForeignTypeWrapper(StringType), ForeignDeclaredSymbol} :
    \E s \in {[q |-> query, o |-> NewCall("getArrayType", symbol)]} :
      DoQuery(getArrayType(s, symbol))

\* The symbol wraps an array type, an Array without type argument or a type
\* that is no array, or is no TypeWrapper.
GetElementType ==
  \E symbol \in {ForeignTypeWrapper(type) :
                    type \in {ArrayOfNumber, TypeReference("Array", <<>>),
                              StringType}}
                 \cup {ForeignDeclaredSymbol} :
    \E s \in {[q |-> query, o |-> NewCall("getElementType", symbol)]} :
      DoQuery(getElementType(s, symbol))

NextQuery == GetBuiltinType \/ GetTypeUnion \/ GetArrayType

SpecQuery == InitQuery /\ [][NextQuery]_vars

\* A symbol query asked to strip null and undefined off symbols, time and
\* again.
NextNonNullable == GetNonNullableType \/ GetElementType

SpecNonNullable == InitQuery /\ [][NextNonNullable]_vars

\* ----------------------------------------------------------- symbol tables
\* The SymbolDeclaration values given to createSymbolTable: a name and what
\* tells two declarations of one name apart.
SymbolDeclarations == [name : {"a", "b"}, type : 1..2]

\* new DeclaredSymbol(declaration): typescript_host.ts:861-864; id tells the
\* objects apart.
DeclaredSymbol(declaration, id) ==
  [kind |-> "declared", name |-> declaration.name, declaration |-> declaration,
   id |-> id]

\* new MapSymbolTable(): typescript_host.ts:979-981
MapSymbolTable == [kind |-> "table", map |-> [n \in {} |-> Null], _values |-> <<>>]

\* Array.prototype.indexOf: the first index of the element, 0 for none.
indexOf(array, element) ==
  IF \E i \in 1..Len(array) : array[i] = element
  THEN CHOOSE i \in 1..Len(array) :
         array[i] = element /\ \A j \in 1..(i - 1) : array[j] # element
  ELSE 0

\* MapSymbolTable.add(symbol): typescript_host.ts:987-994
add(table, symbol) ==
  [kind |-> "table",
   map |-> set(table.map, symbol.name, symbol),
   _values |->
     Append(IF symbol.name \in DOMAIN table.map
            THEN [table._values EXCEPT
                    ![indexOf(table._values, table.map[symbol.name])] = symbol]
            ELSE table._values,
            symbol)]

\* MapSymbolTable.addAll(symbols), for the first n symbols:
\* typescript_host.ts:996-1000
RECURSIVE addAll(_, _, _)
addAll(table, symbols, n) ==
  IF n = 0 THEN table ELSE add(addAll(table, symbols, n - 1), symbols[n])

\* MapSymbolTable.size, get(key), values(): typescript_host.ts:983-985, 1004-1007
size(table) == Cardinality(DOMAIN table.map)

get(table, key) == IF key \in DOMAIN table.map THEN table.map[key] ELSE Null

values(table) == table._values

\* createSymbolTable(symbols): typescript_host.ts:686-690; the DeclaredSymbol
\* objects made are numbered from made + 1 on.
createSymbolTable(symbols, made) ==
  addAll(MapSymbolTable,
         [k \in 1..Len(symbols) |-> DeclaredSymbol(symbols[k], made + k)],
         Len(symbols))

\* mergeSymbolTable(symbolTables), for the first n tables:
\* typescript_host.ts:692-698
RECURSIVE mergeSymbolTable(_, _)
mergeSymbolTable(symbolTables, n) ==
  IF n = 0 THEN MapSymbolTable
  ELSE Then(mergeSymbolTable(symbolTables, n - 1), LAMBDA result :
         addAll(result, values(symbolTables[n]), Len(values(symbolTables[n]))))

\* Sequences of length 1..n over a set.
SeqUpTo(S, n) == UNION {[1..k -> S] : k \in 1..n}

\* A symbol query that has built no table yet: table is the table the last
\* call returned, made the number of DeclaredSymbol objects constructed.
InitTable ==
  /\ program = 1
  /\ sourceFiles = Files
  /\ scriptVersion = [f \in Files |-> 1]
  /\ content = [f \in Files |-> "ok"]
  /\ host = NewHost
  /\ call = FirstCall
  /\ ast = [f \in Files |-> Parse(content[f])]
  /\ query = [kind |-> "tables", table |-> Null, made |-> 0]

DoTable(op, input, result, made) ==
  /\ made <= MaxSymbols
  /\ query' = [kind |-> "tables", table |-> result, made |-> made]
  /\ call' = [NewCall(op, input) EXCEPT !.result = result]
  /\ UNCHANGED <<program, sourceFiles, scriptVersion, content, host, ast>>

CreateSymbolTable ==
  /\ query.made < MaxSymbols
  /\ \E symbols \in {<<>>} \cup SeqUpTo(SymbolDeclarations, MaxDeclarations) :
       DoTable("createSymbolTable", symbols,
               createSymbolTable(symbols, query.made), query.made + Len(symbols))

\* The tables merged are the table the last call returned and tables of one
\* symbol.
MergeSymbolTable ==
  /\ query.table # Null
  /\ \E symbolTables \in
        SeqUpTo({query.table}
                \cup {createSymbolTable(<<d>>, query.made) : d \in SymbolDeclarations}, 2) :
       DoTable("mergeSymbolTable", symbolTables,
               mergeSymbolTable(symbolTables, Len(symbolTables)), query.made + 1)

NextTable ==
  \/ CreateSymbolTable
  \/ MergeSymbolTable

SpecTable == InitTable /\ [][NextTable]_vars

\* --------------------------------------------------------- symbol wrappers
\* A ts.Signature: its parameter names and its return type.
TsSignature(parameters, returnType) ==
  [parameters |-> parameters, returnType |-> returnType]

\* The type of a method with the call signatures given.
MethodType(callSignatures) == TsType("Object", "transform", <<>>, callSignatures)

\* A ts.Symbol: its name, whether it is an alias (an import), whether it is
\* a class, its type, its own members (symbol.members, Null for undefined)
\* and, for a class member, the type of the class that declares it (Null
\* for a symbol that is no class member).
TsSymbol(name, alias, class, type, members, parent) ==
  [name |-> name, alias |-> alias, class |-> class, type |-> type,
   members |-> members, parent |-> parent]

\* The members of a symbol that has the members named (a ts.SymbolTable).
TsSymbolTable(names) == [kind |-> "symbols", names |-> names]

\* The calls a wrapper can make on the host checker and on the checker's
\* types.
Computations ==
  {"getAliasedSymbol", "getTypeOfSymbolAtLocation", "getDeclaredTypeOfSymbol",
   "getExportsOfModule", "getTypeAtLocation", "getProperties", "getCallSignatures"}

\* A wrapper object: its class, what it wraps, its memo fields, and as
\* bookkeeping the number of calls of each kind it has made.
Wrapper(class, subject) ==
  [kind |-> "wrapper", class |-> class, subject |-> subject,
   _tsType |-> Null, _members |-> Null,
   calls |-> [c \in Computations |-> 0]]

Called(w, c) == [w EXCEPT !.calls[c] = @ + 1]

\* new TypeWrapper(tsType, context): typescript_host.ts:761-766
NewTypeWrapper(tsType) == Wrapper("TypeWrapper", tsType)

\* new SymbolWrapper(symbol, context): typescript_host.ts:805-809
NewSymbolWrapper(symbol) ==
  IF symbol.alias
  THEN Called(Wrapper("SymbolWrapper", [symbol EXCEPT !.alias = FALSE]),
              "getAliasedSymbol")
  ELSE Wrapper("SymbolWrapper", symbol)

\* new PipeSymbol(pipe, context): typescript_host.ts:1030.  pipe.transform is
\* the type of the transform method of the pipe's class, Null for a pipe
\* whose class is not among the exports of its file.
NewPipeSymbol(pipe) == Wrapper("PipeSymbol", pipe)

\* new DeclaredSymbol(declaration): typescript_host.ts:862
NewDeclaredSymbol(declaration) == Wrapper("DeclaredSymbol", declaration)

\* TypeWrapper.name: typescript_host.ts:768-771
nameOf(w) ==
  IF w.class = "TypeWrapper" THEN typeName(w.subject) ELSE w.subject.name

\* The private tsType getter of SymbolWrapper (typescript_host.ts:851-858)
\* and of PipeSymbol (1086-1098); the wrapper after the read.
tsTypeOf(w) ==
  IF w._tsType # Null THEN w
  ELSE IF w.class = "SymbolWrapper"
  THEN [Called(w, "getTypeOfSymbolAtLocation") EXCEPT !._tsType = w.subject.type]
  ELSE IF w.subject.transform # Null
  THEN [Called(Called(Called(w, "getExportsOfModule"), "getDeclaredTypeOfSymbol"),
               "getTypeOfSymbolAtLocation")
          EXCEPT !._tsType = w.subject.transform]
  ELSE [Called(Called(w, "getExportsOfModule"), "getTypeAtLocation")
          EXCEPT !._tsType = AnyType]

\* The ts.Type a wrapper's signatures are taken from.
typeOfWrapper(w) ==
  CASE w.class = "TypeWrapper" -> w.subject
    [] w.class = "DeclaredSymbol" -> w.subject.type
    [] OTHER -> w._tsType

\* A call of a wrapper's method in progress: the wrapper and what the method
\* returns.
Answer(w, value) == [w |-> w, value |-> value, thrown |-> FALSE]

\* The method threw (a TypeError).
Thrown(w) == [w |-> w, value |-> Null, thrown |-> TRUE]

\* The type getter: typescript_host.ts:777, 817, 872, 1038
type(w) ==
  CASE w.class = "TypeWrapper" -> Answer(w, Null)
    [] w.class = "DeclaredSymbol" -> Answer(w, NewTypeWrapper(w.subject.type))
    [] OTHER -> Then(tsTypeOf(w), LAMBDA w1 : Answer(w1, NewTypeWrapper(w1._tsType)))

\* new SymbolTableWrapper(symbols, context): typescript_host.ts:952-963.
\* symbols is the properties of a type (of the type at a declaration), given
\* as that type, or the members of a symbol, Null for undefined.
SymbolTableWrapper(symbols) ==
  [kind |-> "properties",
   of |-> IF symbols = Null THEN TsSymbolTable({}) ELSE symbols]

EmptyTable == [kind |-> "properties", of |-> Null]

\* members(): typescript_host.ts:787-789, 830-841, 880, 1048
members(w) ==
  CASE w.class \in {"TypeWrapper", "DeclaredSymbol"} ->
         Answer(Called(w, "getProperties"), SymbolTableWrapper(typeOfWrapper(w)))
    [] w.class = "PipeSymbol" -> Answer(w, EmptyTable)
    [] OTHER ->
         IF w._members # Null THEN Answer(w, w._members)
         ELSE IF w.subject.class
         THEN Then(Called(Called(w, "getDeclaredTypeOfSymbol"), "getProperties"),
                   LAMBDA w1 :
                     Answer([w1 EXCEPT !._members = SymbolTableWrapper(w.subject.type)],
                            SymbolTableWrapper(w.subject.type)))
         ELSE Answer([w EXCEPT !._members = SymbolTableWrapper(w.subject.members)],
                     SymbolTableWrapper(w.subject.members))

\* new SignatureWrapper(signature, context): typescript_host.ts:891-899
SignatureWrapper(signature) ==
  [class |-> "SignatureWrapper", signature |-> signature, resultType |-> Null]

\* new SignatureResultOverride(signature, resultType): typescript_host.ts:901-907
SignatureResultOverride(signature, resultType) ==
  [class |-> "SignatureResultOverride", signature |-> signature,
   resultType |-> resultType]

\* Signature.result and Signature.arguments: typescript_host.ts:894-898, 904-906
resultOf(signature) ==
  IF signature.class = "SignatureWrapper"
  THEN NewTypeWrapper(signature.signature.returnType)
  ELSE signature.resultType

RECURSIVE argumentsOf(_)
argumentsOf(signature) ==
  IF signature.class = "SignatureWrapper"
  THEN signature.signature.parameters
  ELSE argumentsOf(signature.signature)

\* signaturesOf(type, context): typescript_host.ts:750-752
signaturesOf(tsType) ==
  [i \in 1..Len(tsType.callSignatures) |-> SignatureWrapper(tsType.callSignatures[i])]

\* signatures(): typescript_host.ts:791, 843, 882, 1050
signatures(w) ==
  Then(IF w.class \in {"SymbolWrapper", "PipeSymbol"} THEN tsTypeOf(w) ELSE w,
       LAMBDA w1 :
         Answer(Called(w1, "getCallSignatures"), signaturesOf(typeOfWrapper(w1))))

\* typeCallable(type): typescript_host.ts:745-748
typeCallable(tsType) == Len(tsType.callSignatures) # 0

\* The callable getter: typescript_host.ts:783, 826, 874, 1042
callable(w) ==
  IF w.class = "PipeSymbol" THEN Answer(w, TRUE)
  ELSE Then(IF w.class = "SymbolWrapper" THEN tsTypeOf(w) ELSE w, LAMBDA w1 :
         Answer(Called(w1, "getCallSignatures"), typeCallable(typeOfWrapper(w1))))

\* The kind getter: typescript_host.ts:773, 813, 866, 1034
kind(w) ==
  CASE w.class = "TypeWrapper" -> Answer(w, "type")
    [] w.class = "DeclaredSymbol" -> Answer(w, w.subject.kind)
    [] w.class = "PipeSymbol" -> Answer(w, "pipe")
    [] OTHER -> Then(callable(w), LAMBDA c :
                  Answer(c.w, IF c.value THEN "method" ELSE "property"))

\* The container getter: typescript_host.ts:779, 819, 870, 1040, with
\* getContainerOf (1283-1295)
container(w) ==
  IF w.class = "SymbolWrapper" /\ w.subject.parent # Null
  THEN Answer(Called(w, "getTypeAtLocation"), NewTypeWrapper(w.subject.parent))
  ELSE Answer(w, Null)

\* The definition getter: typescript_host.ts:785, 828, 878, 1046, with
\* definitionFromTsSymbol (1258-1270): reading the declarations of the
\* symbol of a type that has no symbol throws.
definition(w) ==
  CASE w.class \in {"SymbolWrapper", "DeclaredSymbol"} -> Answer(w, "definition")
    [] OTHER ->
         Then(IF w.class = "PipeSymbol" THEN tsTypeOf(w) ELSE w, LAMBDA w1 :
           IF typeOfWrapper(w1).name = "" THEN Thrown(w1)
           ELSE Answer(w1, "definition"))

\* selectSignature(type, context, types): typescript_host.ts:754-759
selectSignature(tsType, types) ==
  IF Len(tsType.callSignatures) # 0
  THEN SignatureWrapper(tsType.callSignatures[1])
  ELSE Null

\* PipeSymbol.selectSignature(types): typescript_host.ts:1052-1082
selectSignatureOfPipe(w, types) ==
  Then(tsTypeOf(w), LAMBDA w0 :
  Then(Called(w0, "getCallSignatures"), LAMBDA w1 :
  Then(selectSignature(w1._tsType, types), LAMBDA signature :
    IF Len(types) = 1 /\ types[1].class = "TypeWrapper"
    THEN Then(CASE nameOf(w1) = "async" ->
                     IF nameOf(types[1]) \in {"Observable", "Promise", "EventEmitter"}
                     THEN Answer(w1, getTypeParameterOf(types[1].subject, nameOf(types[1])))
                     ELSE Answer(Called(w1, "getTypeAtLocation"), AnyType)
                [] nameOf(w1) = "slice" ->
                     Answer(w1, getTypeParameterOf(types[1].subject, "Array"))
                [] OTHER -> Answer(w1, Null),
              LAMBDA resultType :
                IF resultType.value # Null
                THEN Answer(resultType.w,
                            SignatureResultOverride(signature,
                                                    NewTypeWrapper(resultType.value)))
                ELSE Answer(resultType.w, signature))
    ELSE Answer(w1, signature))))

\* selectSignature(types) of a wrapper: typescript_host.ts:793-795, 845-847,
\* 884-886, 1052-1082
selectSignatureOf(w, types) ==
  IF w.class = "PipeSymbol" THEN selectSignatureOfPipe(w, types)
  ELSE Then(IF w.class = "SymbolWrapper" THEN tsTypeOf(w) ELSE w, LAMBDA w1 :
         Answer(Called(w1, "getCallSignatures"),
                selectSignature(typeOfWrapper(w1), types)))

\* The types the wrappers examined are made of.
ObservableOfString == TypeReference("Observable", <<StringType>>)

PromiseOfNumber == TypeReference("Promise", <<NumberType>>)

EventEmitterOfString == TypeReference("EventEmitter", <<StringType>>)

\* transform(value: any): any, and an overloaded transform
TransformTypes ==
  {MethodType(<<TsSignature(<<"value">>, AnyType)>>),
   MethodType(<<TsSignature(<<"value", "start">>, ObservableOfString),
                TsSignature(<<"value">>, AnyType)>>)}

Pipes ==
  [name : {"async", "slice", "date"}, transform : TransformTypes \cup {Null}]

ExaminedTypes ==
  {StringType, ObservableOfString, PromiseOfNumber, EventEmitterOfString,
   ArrayOfNumber, TypeReference("Subject", <<StringType>>),
   TypeReference("Observable", <<>>),
   TypeReference("Promise", <<StringType, NumberType>>)}
    \cup TransformTypes

TsSymbols ==
  {TsSymbol("s", alias, class, tsType, symbols, Null) :
     alias \in BOOLEAN, class \in BOOLEAN, tsType \in {StringType, ArrayOfNumber},
     symbols \in {Null, TsSymbolTable({"m"})}}
    \cup {TsSymbol("m", FALSE, FALSE, tsType, Null, TypeReference("C", <<>>)) :
            tsType \in {StringType} \cup TransformTypes}

\* The symbols given to selectSignature as argument types.
ArgumentSymbols ==
  {NewTypeWrapper(tsType) : tsType \in ExaminedTypes \ TransformTypes}
    \cup {NewDeclaredSymbol([name |-> "v", kind |-> "variable",
                                type |-> ObservableOfString])}

\* A wrapper just constructed.
InitWrapper ==
  /\ program = 1
  /\ sourceFiles = Files
  /\ scriptVersion = [f \in Files |-> 1]
  /\ content = [f \in Files |-> "ok"]
  /\ host = NewHost
  /\ call = FirstCall
  /\ ast = [f \in Files |-> Parse(content[f])]
  /\ query \in {NewTypeWrapper(tsType) : tsType \in ExaminedTypes}
               \cup {NewSymbolWrapper(symbol) : symbol \in TsSymbols}
               \cup {NewPipeSymbol(pipe) : pipe \in Pipes}
               \cup {NewDeclaredSymbol([name |-> "v", kind |-> "variable",
                                           type |-> tsType]) :
                       tsType \in {StringType, ArrayOfNumber}}

\* A method of the wrapper ran to its end.
DoWrapper(op, argument, answer) ==
  /\ \A c \in Computations : answer.w.calls[c] <= MaxCalls
  /\ query' = answer.w
  /\ call' = [NewCall(op, argument) EXCEPT !.result = answer.value,
                                          !.thrown = answer.thrown]
  /\ UNCHANGED <<program, sourceFiles, scriptVersion, content, host, ast>>

GetType ==
  /\ query.kind = "wrapper"
  /\ DoWrapper("type", 0, type(query))

GetMembers ==
  /\ query.kind = "wrapper"
  /\ DoWrapper("members", 0, members(query))

GetSignatures ==
  /\ query.kind = "wrapper"
  /\ DoWrapper("signatures", 0, signatures(query))

SelectSignature ==
  /\ query.kind = "wrapper"
  /\ \E types \in {<<>>} \cup SeqUpTo(ArgumentSymbols, 2) :
       DoWrapper("selectSignature", types, selectSignatureOf(query, types))

GetCallable ==
  /\ query.kind = "wrapper"
  /\ DoWrapper("callable", 0, callable(query))

GetKind ==
  /\ query.kind = "wrapper"
  /\ DoWrapper("kind", 0, kind(query))

GetContainer ==
  /\ query.kind = "wrapper"
  /\ DoWrapper("container", 0, container(query))

GetDefinition ==
  /\ query.kind = "wrapper"
  /\ DoWrapper("definition", 0, definition(query))

NextWrapper ==
  \/ GetType
  \/ GetCallable
  \/ GetKind
  \/ GetContainer
  \/ GetDefinition
  \/ GetMembers
  \/ GetSignatures
  \/ SelectSignature

SpecWrapper == InitWrapper /\ [][NextWrapper]_vars

\* -------------------------------------------------------- template sources
\* The views of a TemplateSource a reader can ask for.
Views == {"members", "query", "pipes"}

\* The object getSourceFromDeclaration returns, with the queryCache variable
\* its getters close over (typescript_host.ts:311) and, as bookkeeping, how
\* often each view was read and how often it was computed.
TemplateSource(template) ==
  [kind |-> "source", template |-> template, queryCache |-> Null,
   reads |-> [v \in Views |-> 0], computed |-> [v \in Views |-> 0]]

\* new PipesTable(pipes, context): typescript_host.ts:1010-1011
PipesTable(pipes) == [kind |-> "pipes", pipes |-> pipes]

\* TemplateSource.members: typescript_host.ts:319-322 (the table of the
\* properties of the type of the component class declaration)
membersOfSource(s) ==
  Then(checker(s), LAMBDA s1 :
    [s1 EXCEPT !.t.reads["members"] = @ + 1,
               !.t.computed["members"] = @ + 1,
               !.o.result =
                 SymbolTableWrapper([kind |-> "type",
                                     declaration |-> s.t.template.declaration])])

\* TemplateSource.query: typescript_host.ts:323-332
queryOfSource(s) ==
  IF s.t.queryCache = Null
  THEN Then(checker(s), LAMBDA s1 :
         [s1 EXCEPT !.t.reads["query"] = @ + 1,
                    !.t.computed["query"] = @ + 1,
                    !.t.queryCache =
                       [kind |-> "query", source |-> s.t.template.fileName,
                        pipesCache |-> Null],
                    !.o.result = "query"])
  ELSE [s EXCEPT !.t.reads["query"] = @ + 1, !.o.result = "query"]

\* What t.service.getPipesAt(fileName, position) does when the query
\* fetches its pipes: it throws (as does reading it off a host that was
\* given no service), or it returns the pipes of the template.
ServiceAnswers ==
  {[kind |-> "throws"]}
    \cup {[kind |-> "pipes", pipes |-> pipes] :
            pipes \in {<<>>, <<"async">>, <<"async", "slice", "date">>}}

\* The fetchPipes closure given to the query: typescript_host.ts:325-330;
\* answer is what the service does.
fetchPipes(s, answer) ==
  IF answer.kind = "throws" THEN Throw(s)
  ELSE Then(checker(s), LAMBDA s1 :
         [s1 EXCEPT !.t.computed["pipes"] = @ + 1,
                    !.o.result = PipesTable(answer.pipes)])

\* TypeScriptSymbolQuery.getPipes() of the query of a TemplateSource:
\* typescript_host.ts:663-669.  A fetch that throws leaves pipesCache unset.
getPipes(s, answer) ==
  Then([s EXCEPT !.t.reads["pipes"] = @ + 1], LAMBDA s1 :
    IF s1.t.queryCache.pipesCache = Null
    THEN Then(fetchPipes(s1, answer), LAMBDA s2 :
           IF s2.o.thrown THEN s2
           ELSE [s2 EXCEPT !.t.queryCache.pipesCache = s2.o.result])
    ELSE [s1 EXCEPT !.o.result = s1.t.queryCache.pipesCache])

\* The TemplateSource of the template of a component, just built.
InitSource ==
  /\ program = 1
  /\ sourceFiles = Files
  /\ scriptVersion = [f \in Files |-> 1]
  /\ content \in [Files -> {"ok", "url"}]
  /\ host = NewHost
  /\ call = FirstCall
  /\ ast = [f \in Files |-> Parse(content[f])]
  /\ \E f \in Files :
       \E declaration \in {i \in 1..Len(ast[f]) : ast[f][i].kind = "ClassDeclaration"} :
         query = TemplateSource(getSourceFromDeclaration(
                   f, TemplateText, [start |-> 0, end |-> Len(TemplateText)],
                   [filePath |-> f, name |-> ast[f][declaration].text],
                   declaration, declaration))

\* A getter of the TemplateSource ran to its end.
DoSource(e) ==
  \E s \in {e} :
    /\ \A v \in Views : s.t.reads[v] <= MaxCalls
    /\ host' = s.h
    /\ call' = s.o
    /\ query' = s.t
    /\ UNCHANGED <<program, sourceFiles, scriptVersion, content, ast>>

StartSource(op) == [h |-> host, o |-> NewCall(op, 0), t |-> query]

ReadMembers ==
  /\ query.kind = "source"
  /\ DoSource(membersOfSource(StartSource("members")))

ReadQuery ==
  /\ query.kind = "source"
  /\ DoSource(queryOfSource(StartSource("query")))

\* source.query.getPipes()
GetPipes ==
  /\ query.kind = "source"
  /\ \E answer \in ServiceAnswers :
       DoSource(getPipes(queryOfSource(StartSource("getPipes")), answer))

NextSource ==
  \/ ReadMembers
  \/ ReadQuery
  \/ GetPipes

SpecSource == InitSource /\ [][NextSource]_vars

\* ------------------------------------------------------------- properties
\* The version stamps of the program the host returns now.
CurrentVersions == [f \in Files |-> IF f \in sourceFiles THEN scriptVersion[f] ELSE 0]

Returned(c, op) == c.op = op /\ ~c.thrown

\* What a consumer can compare of a result: an error is its message (the
\* file and text version that raised it), a snapshot is its content.
Message(e) == [file |-> e.file, version |-> e.version]

Structure(r) ==
  IF r.kind = "declarations"
  THEN [i \in 1..Len(r.list) |->
          [type |-> r.list[i].type, metadata |-> r.list[i].metadata,
           errors |-> [j \in 1..Len(r.list[i].errors) |-> Message(r.list[i].errors[j])]]]
  ELSE r

\* C1: every cached value a public call reads was computed against the
\* program the host currently returns.
C1_ReadsAreOfCurrentProgram ==
  \A r \in call.reads : r.program = program

\* C2: getAnalyzedModules() returned, a file was then edited (new version
\* stamp, new program), and getAnalyzedModules() is called again: the second
\* call returns modules computed from the new program and the new stamps.
C2_SecondCallReflectsEdit ==
  [][ ( /\ call.op = "edit" /\ call.after = "getAnalyzedModules"
        /\ Returned(call', "getAnalyzedModules") )
      => ( /\ call'.result.program = program'
           /\ \A f \in sourceFiles' :
                call'.result.files[f].version = scriptVersion'[f] ) ]_vars

\* C3: when validate() finds the program differs from the last-seen one, on
\* its return the analyzed modules, the reflector, the file-to-component map
\* and the template-reference list are unset.
C3_DerivedCachesDiscarded ==
  (call.validate.detected /\ call.validate.before.lastProgram # 0)
    => /\ call.validate.atReturn.analyzedModules = Null
       /\ call.validate.atReturn._reflector = Null
       /\ call.validate.atReturn.fileToComponent = Null
       /\ call.validate.atReturn.templateReferences = Null

\* C4: validate() runs at the start of every public operation, before the
\* operation reads any cached state.
C4_ValidateBeforeCachedReads ==
  \A r \in call.reads : r.cached => r.validated

\* C5: a validate() call that sees the program the preceding validate() call
\* saw changes no field of the host.
C5_ValidateNoOpOnSameProgram == ~call.changedOnSame

\* C6: when validate() finds the program changed, on its return the recorded
\* file versions are exactly the current program's source files with their
\* current stamps, and the files invalidated in the static symbol resolver
\* are exactly those whose stamp differed from the recorded one (new files
\* included) and the recorded files the program no longer has.
C6_VersionsRecordedAndFilesInvalidated ==
  call.validate.detected =>
    /\ call.validate.atReturn.fileVersions = CurrentVersions
    /\ call.validate.invalidated =
         {f \in Files : CurrentVersions[f] # call.validate.before.fileVersions[f]}

\* C6 happens: a changed program was detected with one file edited, and
\* another file, whose stamp was recorded and is unchanged, left alone.
C6_Witness ==
  /\ call.validate.detected
  /\ \E f, g \in sourceFiles :
       /\ call.validate.before.fileVersions[f] \notin {0, scriptVersion[f]}
       /\ f \in call.validate.invalidated
       /\ call.validate.before.fileVersions[g] = scriptVersion[g]
       /\ g \notin call.validate.invalidated

\* C7: when validate() finds the program changed it empties the error
\* channel: no error collected before is in the channel on its return, and
\* none is in the channel or in a returned Declaration afterwards.
C7_ErrorChannelCleared ==
  /\ call.validate.detected => call.validate.atReturn.collectedErrors = Null
  /\ \A f \in Files : \A i \in 1..Len(ErrorsOf(host, f)) : ~ErrorsOf(host, f)[i].old
  /\ Returned(call, "getDeclarations") =>
       \A i \in 1..Len(call.result.list) :
         \A j \in 1..Len(call.result.list[i].errors) :
           ~call.result.list[i].errors[j].old

\* C7 happens: the channel held errors when a changed program was detected,
\* and the call went on to return a Declaration carrying a new error.
C7_Witness ==
  /\ call.validate.detected
  /\ call.validate.before.collectedErrors # Null
  /\ Returned(call, "getDeclarations")
  /\ \E i \in 1..Len(call.result.list) : call.result.list[i].errors # <<>>

\* C8: two getAnalyzedModules() calls back to back, with no host change
\* between them, return the same snapshot.
C8_BackToBackSameSnapshot ==
  [][ ( /\ Returned(call, "getAnalyzedModules")
        /\ call'.op = "getAnalyzedModules"
        /\ program' = program )
      => ( ~call'.thrown /\ call'.result = call.result ) ]_vars

\* C8 happens: a second getAnalyzedModules() call in a row returned, on a
\* host whose modulesOutOfDate flag is set.
C8_Witness ==
  /\ Returned(call, "getAnalyzedModules")
  /\ call.after = "same"
  /\ host.modulesOutOfDate
  /\ call.result = host.analyzedModules

\* C9: a public query called twice with the same argument and no host change
\* between the calls yields structurally equal results.
C9_RepeatedQueryEqualResults ==
  [][ ( /\ call.op \in {"getDeclarations", "getAnalyzedModules", "getTemplateReferences"}
        /\ ~call.thrown
        /\ call'.op = call.op /\ call'.file = call.file /\ ~call'.thrown
        /\ program' = program )
      => Structure(call'.result) = Structure(call.result) ]_vars

\* C10 as stated: the channel holds no error for file B, another file A is
\* edited, and getDeclarations(B) then returns only Declarations with an
\* empty error list.
C10_NoErrorsAfterOtherFileEdited ==
  [][ ( /\ call.op = "edit"
        /\ Returned(call', "getDeclarations")
        /\ call'.file # call.file
        /\ ErrorsOf(host, call'.file) = <<>> )
      => \A i \in 1..Len(call'.result.list) : call'.result.list[i].errors = <<>> ]_vars

\* C10 amended: every error in a Declaration returned by getDeclarations(B)
\* was raised for B itself, and when B's own metadata resolves cleanly the
\* error list is empty, whatever was edited or collected for other files.
C10_OnlyOwnErrors ==
  Returned(call, "getDeclarations") =>
    \A i \in 1..Len(call.result.list) :
      /\ \A j \in 1..Len(call.result.list[i].errors) :
           call.result.list[i].errors[j].file = call.file
      /\ content[call.file] \in {"ok", "url"} => call.result.list[i].errors = <<>>

\* C10 happens: the channel held an error for A and none for B, A (and only
\* A) was then edited, and the getDeclarations(B) call that detected the new
\* program returned a Declaration with an empty error list.
C10_Witness ==
  /\ Returned(call, "getDeclarations")
  /\ call.result.list # <<>>
  /\ call.result.list[1].errors = <<>>
  /\ call.validate.detected
  /\ call.validate.before.fileVersions[call.file] = scriptVersion[call.file]
  /\ call.validate.before.collectedErrors # Null
  /\ call.validate.before.collectedErrors.map[call.file] = <<>>
  /\ \E a \in sourceFiles \ {call.file} :
       /\ call.validate.before.fileVersions[a] \notin {0, scriptVersion[a]}
       /\ call.validate.before.collectedErrors.map[a] # <<>>

\* C19: on one symbol query, once a kind has a cache entry the entry stays,
\* every later getBuiltinType call for that kind returns that very entry, a
\* call that returns leaves what it returned in the cache, and the checker is
\* asked for a kind at most once.
C19_BuiltinTypeCached ==
  [][ /\ \A k \in BuiltinType :
           /\ query'.lookups[k] <= 1
           /\ query.typeCache[k] # Null =>
                /\ query'.typeCache[k] = query.typeCache[k]
                /\ (call'.op = "getBuiltinType" /\ call'.file = k) =>
                     (~call'.thrown /\ call'.result = query.typeCache[k])
      /\ Returned(call', "getBuiltinType") =>
           call'.result = query'.typeCache[call'.file] ]_vars

\* C19 happens: getBuiltinType(Number) returned a second time in a row.
C19_Witness ==
  /\ Returned(call, "getBuiltinType")
  /\ call.file = "Number"
  /\ call.after = "same"
  /\ call.result.tsType.flags = "Number"
  /\ query.lookups["Number"] = 1

\* C20: getBuiltinType(kind) fails for none of the eight built-in kinds.
C20_BuiltinTypeNeverFails ==
  call.op = "getBuiltinType" => ~call.thrown

\* The kinds of a node's ancestors, nearest first.
RECURSIVE ancestorKinds(_, _)
ancestorKinds(nodes, i) ==
  IF nodes[i].parent = 0 THEN <<>>
  ELSE <<nodes[nodes[i].parent].kind>> \o ancestorKinds(nodes, nodes[i].parent)

\* The i-th ancestor of a node (the node itself for 0).
RECURSIVE ancestor(_, _, _)
ancestor(nodes, i, n) == IF n = 0 THEN i ELSE ancestor(nodes, nodes[i].parent, n - 1)

TemplateChain ==
  <<"PropertyAssignment", "ObjectLiteralExpression", "CallExpression",
    "Decorator", "ClassDeclaration">>

\* Node i has the shape of an inline template: a string or no-substitution
\* template literal under a property assignment named template, in an object
\* literal, in a call, in a decorator, of a class declaration with a name.
templateShape(nodes, i) ==
  /\ nodes[i].kind \in {"StringLiteral", "NoSubstitutionTemplateLiteral"}
  /\ Len(ancestorKinds(nodes, i)) >= 5
  /\ SubSeq(ancestorKinds(nodes, i), 1, 5) = TemplateChain
  /\ nodes[ancestor(nodes, i, 1)].text = "template"
  /\ nodes[ancestor(nodes, i, 5)].text # ""

\* The nodes of template shape among the first n, in tree-walk order.
RECURSIVE templateNodes(_, _)
templateNodes(nodes, n) ==
  IF n = 0 THEN <<>>
  ELSE IF templateShape(nodes, n) THEN Append(templateNodes(nodes, n - 1), n)
  ELSE templateNodes(nodes, n - 1)

\* C11: getTemplateAt(file, p) with p anywhere inside a literal of template
\* shape returns a TemplateSource whose span is the literal without its
\* quotes, whose source is the literal's text and whose type is the static
\* symbol of (file, class name).
C11_TemplateAtLiteral ==
  (call.op = "getTemplateAt" /\ call.file[1] \in Files) =>
    \A i \in 1..Len(ast[call.file[1]]) :
      LET nodes == ast[call.file[1]] IN
      ( /\ templateShape(nodes, i)
        /\ call.file[2] >= nodes[i].start /\ call.file[2] < nodes[i].end )
      => /\ ~call.thrown
         /\ call.result # Null
         /\ call.result.span = [start |-> nodes[i].start + 1, end |-> nodes[i].end - 1]
         /\ call.result.source = nodes[i].text
         /\ call.result.type = [filePath |-> call.file[1],
                                name |-> nodes[ancestor(nodes, i, 5)].text]

\* C11 happens: getTemplateAt at the closing quote of the template literal of
\* the second component of a file returned a TemplateSource.
C11_Witness ==
  /\ Returned(call, "getTemplateAt")
  /\ call.file[1] \in Files
  /\ call.result # Null
  /\ call.result.type.name = "D"
  /\ call.file[2] = call.result.span.end

\* C12: a node is taken for template content exactly if it has the template
\* shape; for any other node the answer is absence, not a TemplateSource and
\* not a thrown error.
C12_TemplateShapeOnly ==
  /\ \A f \in sourceFiles : \A i \in 1..Len(ast[f]) :
       ( /\ ast[f][i].kind \in LiteralKinds
         /\ getTemplateClassDeclFromNode(ast[f], i) # 0
         /\ ast[f][getTemplateClassDeclFromNode(ast[f], i)].text # "" )
       <=> templateShape(ast[f], i)
  /\ (call.op = "getTemplateAt" /\ call.file[1] \in Files) =>
       LET nodes == ast[call.file[1]]
           node == findNode(nodes, call.file[2])
       IN /\ (node = 0 \/ ~templateShape(nodes, node)) =>
               (~call.thrown /\ call.result = Null)
          /\ (node # 0 /\ templateShape(nodes, node)) =>
               (~call.thrown /\ call.result # Null /\ call.result.node = node)

\* C12 happens: getTemplateAt inside the string literal of a templateUrl
\* property returned nothing.
C12_Witness ==
  /\ Returned(call, "getTemplateAt")
  /\ call.file[1] \in Files
  /\ call.result = Null
  /\ LET nodes == ast[call.file[1]]
         node == findNode(nodes, call.file[2])
     IN /\ node # 0
        /\ nodes[node].kind = "StringLiteral"
        /\ nodes[nodes[node].parent].kind = "PropertyAssignment"
        /\ nodes[nodes[node].parent].text = "templateUrl"

\* C13: getTemplates(file), for a source file that is no external template,
\* returns the TemplateSources of exactly the nodes of template shape, in
\* tree-walk order, and undefined when there is none.
C13_TemplatesOfEveryShapeNode ==
  (call.op = "getTemplates" /\ call.file \in Files) =>
    LET nodes == ast[call.file]
        expected == templateNodes(nodes, Len(nodes))
    IN /\ ~call.thrown
       /\ expected = <<>> => call.result = Null
       /\ expected # <<>> =>
            /\ call.result # Null
            /\ [i \in 1..Len(call.result.list) |-> call.result.list[i].node] = expected
            /\ \A i \in 1..Len(expected) :
                 call.result.list[i].span = shrink(spanOf(nodes[expected[i]]))

\* C13 happens: getTemplates returned the templates of both components of a
\* file.
C13_Witness ==
  /\ Returned(call, "getTemplates")
  /\ call.file \in Files
  /\ call.result # Null
  /\ Len(call.result.list) = 2
  /\ call.result.list[1].type.name = "C"
  /\ call.result.list[2].type.name = "D"

\* The class declarations among the first n nodes that getDeclarations takes
\* for directives: named, carrying a decorator that is a call of something
\* the checker has a type for, and known to the resolver as a directive
\* (resolving its metadata may still throw an error).
RECURSIVE decoratedClasses(_, _)
decoratedClasses(nodes, n) ==
  IF n = 0 THEN <<>>
  ELSE IF /\ nodes[n].kind = "ClassDeclaration"
          /\ nodes[n].text # ""
          /\ nodes[n].resolves \in {"directive", "throws"}
          /\ \E c \in 1..Len(nodes) :
               isDecoratorCall(nodes, n, c) /\ nodes[c + 1].resolves # "untyped"
  THEN Append(decoratedClasses(nodes, n - 1), n)
  ELSE decoratedClasses(nodes, n - 1)

\* The list holds one Declaration per decorated class of the file, in order.
OnePerDecoratedClass(list, f, nodes) ==
  LET classes == decoratedClasses(nodes, Len(nodes)) IN
  /\ Len(list) = Len(classes)
  /\ \A k \in 1..Len(classes) :
       list[k].type = [filePath |-> f, name |-> nodes[classes[k]].text]

\* C15: getDeclarations(file) returns exactly one Declaration per decorated
\* directive class of the file, also for a class with several decorators, and
\* the errors of a Declaration are only errors raised for that declaration,
\* never errors raised for another decorated class of the same file.
C15_OwnDeclarationErrors ==
  (Returned(call, "getDeclarations") /\ call.file \in sourceFiles) =>
    /\ OnePerDecoratedClass(call.result.list, call.file, ast[call.file])
    /\ \A k \in 1..Len(call.result.list) :
         \A j \in 1..Len(call.result.list[k].errors) :
           call.result.list[k].errors[j].type \in {"", call.result.list[k].type.name}

\* C17: when resolving the metadata of a decorated class throws during
\* getDeclarations(file), whatever is thrown, the call does not throw, the
\* failure is recorded in the error collection under the file, a Declaration
\* without metadata is returned for the class with the error on a defined
\* span, and the other decorated classes of the file are still returned.
C17_ResolutionFailureAccumulated ==
  (call.op = "getDeclarations" /\ call.file \in sourceFiles) =>
    LET nodes == ast[call.file] IN
    \A i \in 1..Len(nodes) :
      ( /\ nodes[i].kind = "ClassDeclaration"
        /\ nodes[i].text # ""
        /\ nodes[i].resolves \in {"throws", "silent"}
        /\ \E c \in 1..Len(nodes) :
             isDecoratorCall(nodes, i, c) /\ nodes[c + 1].resolves # "untyped" )
      => /\ ~call.thrown
         /\ \E n \in 1..Len(ErrorsOf(host, call.file)) :
              ErrorsOf(host, call.file)[n].type = nodes[i].text
         /\ \E k \in 1..Len(call.result.list) :
              LET d == call.result.list[k] IN
              /\ d.type = [filePath |-> call.file, name |-> nodes[i].text]
              /\ d.metadata = FALSE
              /\ d.declarationSpan.start < d.declarationSpan.end
              /\ \E j \in 1..Len(d.errors) :
                   /\ d.errors[j].type = nodes[i].text
                   /\ d.errors[j].span = d.declarationSpan
         /\ OnePerDecoratedClass(call.result.list, call.file, nodes)

\* The list and the index of template references are both there.
templateMapBuilt(h) == h.fileToComponent # Null /\ h.templateReferences # Null

\* C14: getTemplateReferences() returns, in scan order, the template path of
\* every analyzed component that declares a templateUrl and of no other; the
\* file-to-component index maps every returned path to a component declaring
\* it; the list and the index are built together, and a call that finds them
\* built leaves them as they are.
C14_TemplateReferencesBuiltOnce ==
  [][ Returned(call', "getTemplateReferences") =>
      LET list == call'.result.templates
          index == host'.fileToComponent.get
      IN
      /\ templateMapBuilt(host')
      /\ call'.result = host'.templateReferences
      /\ host'.fileToComponent.program = host'.templateReferences.program
      /\ \A i \in 1..Len(list) :
           /\ list[i] \in DOMAIN index
           /\ templateName(index[list[i]].filePath) = list[i]
           /\ \A j \in 1..Len(list) :
                i < j => index[list[i]].filePath < index[list[j]].filePath
      /\ templateMapBuilt(host) =>
           /\ host'.fileToComponent = host.fileToComponent
           /\ host'.templateReferences = host.templateReferences
      /\ ~templateMapBuilt(host) =>
           /\ {list[i] : i \in 1..Len(list)} =
                {templateName(f) : f \in {g \in Files :
                    host'.analyzedModules.files[g].kind = "url"}}
           /\ \A i \in 1..Len(list) :
                host'.analyzedModules.files[index[list[i]].filePath].kind = "url"
    ]_vars

\* C14 happens: a second getTemplateReferences() call in a row found the list
\* and the index built and returned the paths of two components.
C14_Witness ==
  /\ Returned(call, "getTemplateReferences")
  /\ call.after = "same"
  /\ Len(call.result.templates) = 2
  /\ \E r \in call.reads : r.cache = "fileToComponent" /\ r.cached

\* C18: a request fails only when no reflector host is cached and the context
\* file is not a source file of the program, and it then caches no reflector
\* host; after a failed request, once the host's first script file is a
\* source file of the program, the next request succeeds.
C18_NoContextFailsUntilRestored ==
  [][ /\ call'.thrown =>
           (~host'._reflectorHost /\ host'.context \notin sourceFiles')
      /\ ( /\ call.thrown \/ (call.op \in HostChanges /\ call.after = "throw")
           /\ FirstScript \in sourceFiles'
           /\ call'.op \notin HostChanges )
         => ~call'.thrown ]_vars

\* The program consists of file a, with one cleanly resolving component, and
\* file b, with no decorated class; the two are the host's script files, so
\* the first script file is one of them.
CleanComponentAndPlainSibling(a, b) ==
  /\ sourceFiles = {a, b}
  /\ FirstScript \in sourceFiles
  /\ a # b
  /\ content[a] = "ok"
  /\ content[b] = "none"

\* C16: in a program of one file with one cleanly resolving component and a
\* sibling file with no decorated class, getDeclarations of the first file
\* returns exactly one Declaration, with no errors, and getDeclarations of the
\* sibling returns an empty list; getDeclarations of a file that is not in the
\* program returns an empty list; none of them throws.
C16_CleanComponentAndPlainSibling ==
  call.op = "getDeclarations" =>
    /\ (\E b \in Files : CleanComponentAndPlainSibling(call.file, b)) =>
         /\ ~call.thrown
         /\ Len(call.result.list) = 1
         /\ call.result.list[1].type = [filePath |-> call.file, name |-> ComponentName]
         /\ call.result.list[1].metadata
         /\ call.result.list[1].errors = <<>>
    /\ (\E a \in Files : CleanComponentAndPlainSibling(a, call.file)) =>
         /\ ~call.thrown
         /\ call.result.list = <<>>
    /\ call.file \notin sourceFiles =>
         /\ ~call.thrown
         /\ call.result.list = <<>>

\* C16 happens: getDeclarations returned the one Declaration of the clean
\* component, on a host that had collected errors for an earlier text of the
\* file.
C16_Witness ==
  /\ Returned(call, "getDeclarations")
  /\ \E b \in Files : CleanComponentAndPlainSibling(call.file, b)
  /\ Len(call.result.list) = 1
  /\ call.validate.detected
  /\ call.validate.before.collectedErrors # Null

\* C16 happens for the sibling: getDeclarations of the file without decorated
\* class returned.
C16_WitnessSibling ==
  /\ Returned(call, "getDeclarations")
  /\ \E a \in Files : CleanComponentAndPlainSibling(a, call.file)

\* C25: whenever the host holds a cached metadata resolver, the host holds a
\* reflector and it is the reflector the resolver was constructed with.
C25_ResolverOnCurrentReflector ==
  host._resolver # Null =>
    /\ host._reflector # Null
    /\ host._resolver.reflector = host._reflector.id

\* C26: when updateAnalyzedModules() returns, modulesOutOfDate is false and
\* the cached analyzed modules were computed against the current program and
\* the current file versions; a second updateAnalyzedModules() call with no
\* program change between the two runs no analysis and leaves the analyzed
\* modules, the reflector and the template maps as they were.
C26_UpdateBringsModulesUpToDate ==
  [][ Returned(call', "updateAnalyzedModules") =>
      /\ ~host'.modulesOutOfDate
      /\ host'.analyzedModules # Null
      /\ host'.analyzedModules.program = program'
      /\ \A f \in sourceFiles' :
           host'.analyzedModules.files[f].version = scriptVersion'[f]
      /\ (Returned(call, "updateAnalyzedModules") /\ program' = program) =>
           /\ host'.analyses = host.analyses
           /\ host'.analyzedModules = host.analyzedModules
           /\ host'._reflector = host._reflector
           /\ host'.fileToComponent = host.fileToComponent
           /\ host'.templateReferences = host.templateReferences
    ]_vars

\* C26 happens: a second updateAnalyzedModules() call in a row returned, after
\* a program change that the first one had to take in.
C26_Witness ==
  /\ Returned(call, "updateAnalyzedModules")
  /\ call.after = "same"
  /\ program > 1
  /\ host.analyses > 1

\* The errors a channel value holds for a file.
ErrorsIn(collectedErrors, f) ==
  IF collectedErrors = Null THEN <<>> ELSE collectedErrors.map[f]

\* The number of errors reported for file f during a call that started with
\* host h0, ended with host h1 and left the call record c.  The channel is
\* only appended to, or emptied by a validate() that finds the program
\* changed: the errors reported are those added before that validate() and
\* those in the channel at the end, or, without such a validate(), those
\* added to the channel.
reportedDuring(h0, h1, c, f) ==
  IF c.validate.detected
  THEN (Len(ErrorsIn(c.validate.before.collectedErrors, f)) - Len(ErrorsOf(h0, f)))
       + Len(ErrorsOf(h1, f))
  ELSE Len(ErrorsOf(h1, f)) - Len(ErrorsOf(h0, f))

\* The number of those errors that are in the channel when the call returns.
keptOf(h0, h1, c, f) ==
  IF c.validate.detected THEN Len(ErrorsOf(h1, f))
  ELSE Len(ErrorsOf(h1, f)) - Len(ErrorsOf(h0, f))

\* C27: every error reported to the channel during a call that computes the
\* analyzed modules is in the channel when the call returns (the program
\* cannot change during a call), also on a fresh host.
C27_ReportedErrorsKept ==
  [][ (~call'.thrown /\ host'.analyses > host.analyses) =>
        \A f \in Files :
          keptOf(host, host', call', f) = reportedDuring(host, host', call', f)
    ]_vars

\* C28: getNonNullableType of a type-wrapper symbol whose type is already
\* non-nullable returns a symbol of that same type, so that applying
\* getNonNullableType to its own result yields a symbol of the result's type.
C28_NonNullableIdempotent ==
  [][ /\ ( /\ Returned(call', "getNonNullableType")
           /\ call'.file.kind = "type"
           /\ checkerGetNonNullableType(call'.file.tsType) = call'.file.tsType )
         => call'.result.tsType = call'.file.tsType
      /\ ( /\ Returned(call, "getNonNullableType")
           /\ call'.op = "getNonNullableType"
           /\ call'.file = call.result )
         => ( ~call'.thrown /\ call'.result.tsType = call.result.tsType ) ]_vars

\* C24: every table returned by createSymbolTable or mergeSymbolTable is a
\* consistent mapping from names to symbols: its size is the number of its
\* values, no two of its values share a name, get of the name of a value is
\* that value, and of the declarations of one name given to createSymbolTable
\* the last one is the one kept.
C24_SymbolTableConsistent ==
  call.op \in {"createSymbolTable", "mergeSymbolTable"} =>
    LET table == call.result IN
    /\ size(table) = Len(values(table))
    /\ \A i, j \in 1..Len(values(table)) :
         values(table)[i].name = values(table)[j].name => i = j
    /\ \A i \in 1..Len(values(table)) :
         get(table, values(table)[i].name) = values(table)[i]
    /\ call.op = "createSymbolTable" =>
         \A k \in 1..Len(call.file) :
           (\A l \in (k + 1)..Len(call.file) : call.file[l].name # call.file[k].name)
             => get(table, call.file[k].name).declaration = call.file[k]

\* The async pipe, whose transform method has a call signature, was asked for
\* its signature with one argument, the wrapper of a type wrapper<T>.
AsyncOfWrappedType ==
  /\ query.kind = "wrapper"
  /\ call.op = "selectSignature"
  /\ query.class = "PipeSymbol"
  /\ query.subject.name = "async"
  /\ query.subject.transform # Null
  /\ Len(call.file) = 1
  /\ call.file[1].class = "TypeWrapper"
  /\ call.file[1].subject.name \in {"Observable", "Promise", "EventEmitter"}
  /\ Len(call.file[1].subject.typeArguments) = 1

\* C21: the signature the async pipe selects for one argument of type
\* Observable<T>, Promise<T> or EventEmitter<T> has the result type T, and
\* the arguments of the first call signature of the pipe's transform method.
C21_AsyncUnwrapsItsArgument ==
  AsyncOfWrappedType =>
    /\ resultOf(call.result).class = "TypeWrapper"
    /\ resultOf(call.result).subject = call.file[1].subject.typeArguments[1]
    /\ argumentsOf(call.result) = query.subject.transform.callSignatures[1].parameters

\* The async pipe whose transform method returns Observable<string> was
\* asked for its signature with a Promise<number>.
C21_Witness ==
  /\ AsyncOfWrappedType
  /\ call.file[1].subject = PromiseOfNumber
  /\ query.subject.transform.callSignatures[1].returnType = ObservableOfString
  /\ resultOf(call.result).subject = NumberType

\* C22: a wrapper just constructed has made no call on the host checker, and
\* no wrapper makes the call behind one of its derived properties more than
\* once, however often the property is read.
C22_WrappersAreLazyAndMemoized ==
  query.kind = "wrapper" =>
    /\ call.op = "new" => \A c \in Computations : query.calls[c] = 0
    /\ \A c \in Computations : query.calls[c] <= 1

\* C23: a TemplateSource just built has computed none of its views, and it
\* computes its members, its query and the pipe table of its query at most
\* once each, however often they are read.
C23_ViewsAreLazyAndCached ==
  query.kind = "source" =>
    /\ call.op = "new" => \A v \in Views : query.computed[v] = 0
    /\ \A v \in Views : query.computed[v] <= 1

====
